---- MODULE Spec2Model ----
(***************************************************************************)
(* Telemetry batching and delivery pipeline of blocks_genesis.lmt:         *)
(*   MongoBatchLogger      (mongo_log_exporter.py)                         *)
(*   MongoDBTraceExporter  (mongo_trace_exporter.py)                       *)
(*   MongoDBDynamicSink    (mongo_dynamic_sink.py)                         *)
(*   LmtServiceBusSender   (delivery sender with quarantine)               *)
(* One behaviour follows one pipeline instance from its construction.      *)
(***************************************************************************)
EXTENDS Integers, Sequences, FiniteSets, TLC

\* ------------------------------------------------------------------------
\* Bounds of the model
\* ------------------------------------------------------------------------
\* number of enqueue calls on a MongoBatchLogger
MaxRecords == 3
\* number of stop() / shutdown() calls on one instance
MaxStops == 2
\* batch_size the MongoBatchLogger is constructed with
batch_size == 2

\* ------------------------------------------------------------------------
\* Generic helpers
\* ------------------------------------------------------------------------
Range(s) == {s[i] : i \in 1..Len(s)}

RECURSIVE Flatten(_)
\* concatenation of a sequence of sequences
Flatten(ss) == IF ss = <<>> THEN <<>> ELSE Head(ss) \o Flatten(Tail(ss))

\* number of positions of s that hold x
Occurrences(s, x) == Cardinality({i \in 1..Len(s) : s[i] = x})

\* ------------------------------------------------------------------------
\* MongoBatchLogger: state
\* ------------------------------------------------------------------------
VARIABLES
    queue,              \* self.queue, FIFO of documents
    log_stop_event,     \* self._stop_event
    batch,              \* local list `batch` of _background_worker
    worker_pc,          \* position of self.worker_thread in _background_worker
    timed_out,          \* the last queue.get of the worker raised Empty
    collection_writes,  \* calls of self.collection.insert_many, in call order
    dequeued,           \* documents removed from self.queue, in removal order
    enqueued,           \* number of enqueue calls that returned
    enqueue_args,       \* the record and the current span of each enqueue call
    stop_pc,            \* position of the caller of stop()
    stop_calls,         \* number of stop() calls begun
    stop_returns,       \* number of stop() calls that returned
    pre_stop            \* enqueued at the time of the first stop() call

logVars == <<queue, log_stop_event, batch, worker_pc, timed_out,
             collection_writes, dequeued, enqueued, enqueue_args, stop_pc,
             stop_calls, stop_returns, pre_stop>>

\* ------------------------------------------------------------------------
\* MongoDBTraceExporter: state
\* ------------------------------------------------------------------------
VARIABLES
    trace_queue,        \* self._queue, FIFO of (tenant_id, doc)
    trace_stop_event,   \* self._stop_event
    batch_by_tenant,    \* local dict of _run, as (tenant, docs) in key order
    flushing,           \* items of `batches` _flush_to_mongo has still to write
    trace_pc,           \* position of self._worker_thread in _run
    db_writes,          \* calls of self._db[tenant_id].insert_many, in order
    flush_inputs,       \* per flush, the queue items removed for it, in order
    flush_input,        \* queue items removed since the last flush
    get_waited,         \* time the worker's queue.get has been blocked
    batch_age,          \* time the worker has waited in queue.get since the
                        \* first span of batch_by_tenant was taken
    exported,           \* number of spans export has put on the queue
    export_calls,       \* number of export calls made
    export_result,      \* how the export call that ended last ended
    export_pending,     \* per export call in progress: its spans not yet put
    client_closed,      \* self._client.close() was called
    shutdown_pc,        \* position of the caller of shutdown()
    shutdown_calls,     \* number of shutdown() calls begun
    shutdown_returns,   \* number of shutdown() calls that returned
    trace_pre_stop      \* exported at the time of the first shutdown() call

traceVars == <<trace_queue, trace_stop_event, batch_by_tenant, flushing,
               trace_pc, db_writes, flush_inputs, flush_input, get_waited,
               batch_age, exported, export_calls, export_result,
               export_pending, client_closed, shutdown_pc, shutdown_calls,
               shutdown_returns, trace_pre_stop>>

\* ------------------------------------------------------------------------
\* MongoDBDynamicSink: state
\* ------------------------------------------------------------------------
VARIABLES
    sink_batch,         \* self.batch
    sink_lock,          \* self.lock: the task holding it, or Free
    sink_waiters,       \* tasks suspended in self.lock.acquire(), FIFO
    sink_pc,            \* position of each task: 0 is _flush_periodically,
                        \* p >= 1 is the p-th emit call
    sink_writes,        \* calls of self.collection.insert_many, in order
    emitted,            \* number of emit calls begun
    ticks               \* number of times asyncio.sleep(flush_interval) ended

sinkVars == <<sink_batch, sink_lock, sink_waiters, sink_pc, sink_writes,
              emitted, ticks>>

\* ------------------------------------------------------------------------
\* LmtServiceBusSender (Delivery Sender and Failed-Batch Quarantine): state
\* ------------------------------------------------------------------------
VARIABLES
    failed_log_batches, \* the quarantine: FailedLogBatch entries, oldest first
    sender,             \* per caller of send_logs_async, the call in progress
                        \* or the way the last call ended
    delivered,          \* the batches the sink accepted, in order
    sealed,             \* number of batches the accumulator has sealed
    timer_fires,        \* number of passes the retry timer has begun
    pass_batches,       \* the batches the running timer pass goes through
    pass_index,         \* how many of them the pass has gone past
    sink_recovered      \* the outage of the sink is over: it accepts every
                        \* transmission from now on

senderVars == <<failed_log_batches, sender, delivered, sealed, timer_fires,
                pass_batches, pass_index, sink_recovered>>

\* ------------------------------------------------------------------------
\* RedisClient (cache/redis_client.py): state
\* ------------------------------------------------------------------------
VARIABLES
    subscriptions,      \* self._subscriptions: channel -> handler
    pubsub_tasks,       \* self._pubsub_tasks: channel -> task (index in tasks)
    tasks,              \* the _handle_subscription tasks created, in order:
                        \* channel, handler, state ("created": not yet run,
                        \* "listening", "closing": in finally, "ended"),
                        \* exc: ended with an exception that is not a
                        \* CancelledError, cancel: asked to cancel and not
                        \* yet run since, behind: the number of callbacks
                        \* of the ready queue that were queued before its
                        \* wait for Redis began
    async_client,       \* self._async_client is not None
    redis_calls,        \* number of commands sent to Redis
    redis_ops,          \* number of pub/sub and dispose methods called
    redis_call,         \* the pub/sub or dispose call that was begun or
                        \* resumed last, and its arguments
    redis_result,       \* "pending" while that call is suspended, else how
                        \* it ended
    redis_disposed,     \* self._disposed
    handler_calls,      \* the handler invocations made by the tasks, in order
    redis_errors,       \* number of self._logger.error calls
    redis_pending,      \* the calls that are suspended
    pubsub_slots,       \* number of entry slots self._pubsub_tasks has used
                        \* since it was created or cleared (a dict keeps its
                        \* entries in insertion order; pop frees no slot)
    cache_commands,     \* number of key/value methods called
    redis_ready         \* the ready queue of the event loop: the steps of
                        \* tasks (<<"task", k>>) and the wake-ups of calls
                        \* (<<"call", id>>) waiting to run, in order

redisVars == <<subscriptions, pubsub_tasks, tasks, async_client, redis_calls,
               redis_ops, redis_call, redis_result, redis_disposed,
               handler_calls, redis_errors, redis_pending, pubsub_slots,
               cache_commands, redis_ready>>

\* ------------------------------------------------------------------------
\* MongoHandler (lmt/mongo_log_exporter.py): state
\* ------------------------------------------------------------------------
VARIABLES
    mongo_logger,       \* MongoHandler._mongo_logger: the batcher, named by
                        \* the thread that constructed it; NoLogger for None
    loggers,            \* the MongoBatchLogger instances constructed
    handler_pc,         \* per thread: position in MongoHandler.__init__
    handler_logger,     \* per thread: self.mongo_logger of its handler
    handler_emits       \* <<handler, batcher>>: emit enqueued into batcher

handlerVars == <<mongo_logger, loggers, handler_pc, handler_logger,
                 handler_emits>>

\* ------------------------------------------------------------------------
\* TenantService (_tenant/tenant_service.py): state
\* ------------------------------------------------------------------------
VARIABLES
    tenant_initialized, \* self._initialized
    init_lock,          \* holder of self._initialize_lock, NoHolder if free
    init_waiters,       \* the initialize() calls suspended on the lock
    init_pc,            \* per caller: position in initialize()
    loads,              \* number of _load_tenants calls made by initialize()
    subscribe_tasks,    \* number of _subscribe_to_updates tasks created
    subscribed,         \* per _subscribe_to_updates task run: whether
                        \* subscribe_async has registered _handle_update
    tenant_store,       \* the Tenants collection: version of the tenant
    tenant_cache,       \* self._tenant_cache: cached version, NoEntry if none
    load_pc,            \* position of the running _load_tenants
    load_by,            \* its caller: an initialize() caller or ByUpdate
    load_snapshot,      \* what its cursor has read from the store
    updates_pending,    \* update notifications not yet handled
    updates_handled,    \* update notifications fully handled
    gets_started,       \* number of get_tenant / get_tenant_by_domain calls
    get_pc,             \* per call: its position
    get_read            \* per call: what its find_one has read

tenantVars == <<tenant_initialized, init_lock, init_waiters, init_pc, loads,
                subscribe_tasks, subscribed, tenant_store, tenant_cache, load_pc,
                load_by, load_snapshot, updates_pending, updates_handled,
                gets_started, get_pc, get_read>>

\* ------------------------------------------------------------------------
\* AzureMessageClient (message/azure/azure_message_client.py): state
\* ------------------------------------------------------------------------
VARIABLES
    azure_senders,      \* self._senders: destination name -> sender
    topic_sender_calls, \* per name: number of get_topic_sender calls
    getter_pc,          \* per caller: position in _send_to_azure_bus_async
    getter_name,        \* per caller: the destination name it asked for
    getter_sender       \* per caller: the sender _get_sender returned

azureVars == <<azure_senders, topic_sender_calls, getter_pc, getter_name,
               getter_sender>>

\* what a MongoBatchLogger step leaves alone
logOthers == <<traceVars, sinkVars, senderVars, redisVars, handlerVars,
               tenantVars, azureVars>>
\* what a MongoDBTraceExporter step leaves alone
traceOthers == <<logVars, sinkVars, senderVars, redisVars, handlerVars,
                 tenantVars, azureVars>>
\* what a MongoDBDynamicSink step leaves alone
sinkOthers == <<logVars, traceVars, senderVars, redisVars, handlerVars,
                tenantVars, azureVars>>
\* what a LmtServiceBusSender step leaves alone
senderOthers == <<logVars, traceVars, sinkVars, redisVars, handlerVars,
                  tenantVars, azureVars>>
\* what a RedisClient step leaves alone
redisOthers == <<logVars, traceVars, sinkVars, senderVars, handlerVars,
                 tenantVars, azureVars>>
\* what a MongoHandler step leaves alone
handlerOthers == <<logVars, traceVars, sinkVars, senderVars, redisVars,
                   tenantVars, azureVars>>
\* what a TenantService step leaves alone
tenantOthers == <<logVars, traceVars, sinkVars, senderVars, redisVars,
                  handlerVars, azureVars>>
\* what an AzureMessageClient step leaves alone
azureOthers == <<logVars, traceVars, sinkVars, senderVars, redisVars,
                 handlerVars, tenantVars>>

\* an attribute that is not set
NoAttr == "<none>"
\* Python's None
None == "<None>"

\* inputs of enqueue: the LogRecord, with the TenantId, TraceId and SpanId
\* attributes the caller may have set on it
LogRecords ==
    {[levelname |-> "INFO", msg |-> "m", TenantId |-> NoAttr,
      TraceId |-> NoAttr, SpanId |-> NoAttr],
     [levelname |-> "INFO", msg |-> "m", TenantId |-> "test-tenant",
      TraceId |-> "abc123traceid", SpanId |-> "def456spanid"]}

\* the span current at the call: its tenant_id attribute and the ids of its
\* span context (0 is the invalid id)
CurrentSpans ==
    {[tenant_id |-> "t1", trace_id |-> 255, span_id |-> 16],
     [tenant_id |-> NoAttr, trace_id |-> 0, span_id |-> 0]}

\* one hexadecimal digit
HexDigit(d) == SubSeq("0123456789abcdef", d + 1, d + 1)

RECURSIVE Hex(_, _)
\* format(n, "0<width>x") for n < 16^width
Hex(n, width) ==
    IF width = 0 THEN ""
    ELSE Hex(n \div 16, width - 1) \o HexDigit(n % 16)

\* get_trace_context: tenant_id of the current span ("Misc" by default) and
\* the ids of its context in hexadecimal, None for an invalid id
get_trace_context(span) ==
    [tenant_id |-> IF span.tenant_id = NoAttr THEN "Misc" ELSE span.tenant_id,
     trace_id  |-> IF span.trace_id # 0 THEN Hex(span.trace_id, 32) ELSE None,
     span_id   |-> IF span.span_id # 0 THEN Hex(span.span_id, 16) ELSE None]

\* line 53: the result of get_trace_context() under each current span
TraceContextOf == [span \in CurrentSpans |-> get_trace_context(span)]

\* the document built by enqueue; now stands for datetime.now()
LogDoc(record, span, now) ==
    [Timestamp |-> now,
     Level     |-> record.levelname,
     Message   |-> record.msg,
     TenantId  |-> TraceContextOf[span].tenant_id,
     TraceId   |-> TraceContextOf[span].trace_id,
     SpanId    |-> TraceContextOf[span].span_id]

\* the flush condition with the size test off by one
ShouldFlushLate(b, stop) == b # <<>> /\ (Len(b) > batch_size \/ stop)

\* line 73: the flush condition of the worker loop
ShouldFlush(b, stop) == b # <<>> /\ (Len(b) >= batch_size \/ stop)

\* batch.clear() moved into the try block: skipped when insert_many raises
BatchKeptOnFailure(b, ok) == IF ok THEN <<>> ELSE b

\* line 78: batch.clear() runs whether or not insert_many raised
BatchAfterInsert(b, ok) == <<>>

LogAbsent ==
    /\ queue = <<>>
    /\ log_stop_event = FALSE
    /\ batch = <<>>
    /\ worker_pc = "none"
    /\ timed_out = FALSE
    /\ collection_writes = <<>>
    /\ dequeued = <<>>
    /\ enqueued = 0
    /\ enqueue_args = <<>>
    /\ stop_pc = "idle"
    /\ stop_calls = 0
    /\ stop_returns = 0
    /\ pre_stop = -1

\* MongoBatchLogger.__init__: empty queue, event clear, worker started
LogConstructed ==
    /\ queue = <<>>
    /\ log_stop_event = FALSE
    /\ batch = <<>>
    /\ worker_pc = "while"
    /\ timed_out = FALSE
    /\ collection_writes = <<>>
    /\ dequeued = <<>>
    /\ enqueued = 0
    /\ enqueue_args = <<>>
    /\ stop_pc = "idle"
    /\ stop_calls = 0
    /\ stop_returns = 0
    /\ pre_stop = -1

\* ------------------------------------------------------------------------
\* MongoBatchLogger: operations
\* ------------------------------------------------------------------------
\* enqueue(record): build the document and put it on the unbounded queue
enqueue(record, span) ==
    /\ worker_pc # "none"
    /\ enqueued < MaxRecords
    /\ queue' = Append(queue, LogDoc(record, span, enqueued + 1))
    /\ enqueued' = enqueued + 1
    /\ enqueue_args' = Append(enqueue_args, [record |-> record, span |-> span])
    /\ UNCHANGED <<log_stop_event, batch, worker_pc, timed_out,
                   collection_writes, dequeued, stop_pc, stop_calls,
                   stop_returns, pre_stop>>
    /\ UNCHANGED logOthers

\* line 66: while not self._stop_event.is_set()
WorkerWhile ==
    /\ worker_pc = "while"
    /\ worker_pc' = IF log_stop_event THEN "after" ELSE "get"
    /\ UNCHANGED <<queue, log_stop_event, batch, timed_out,
                   collection_writes, dequeued, enqueued, enqueue_args,
                   stop_pc, stop_calls, stop_returns, pre_stop>>
    /\ UNCHANGED logOthers

\* a queue handing out its newest document first
WorkerGetNewest ==
    /\ worker_pc = "get"
    /\ queue # <<>>
    /\ batch' = Append(batch, queue[Len(queue)])
    /\ dequeued' = Append(dequeued, queue[Len(queue)])
    /\ queue' = SubSeq(queue, 1, Len(queue) - 1)
    /\ timed_out' = FALSE
    /\ worker_pc' = "check"
    /\ UNCHANGED <<log_stop_event, collection_writes, enqueued,
                   enqueue_args, stop_pc, stop_calls, stop_returns, pre_stop>>
    /\ UNCHANGED logOthers

\* lines 68-69: queue.get returns a document, batch.append(doc)
WorkerGet ==
    /\ worker_pc = "get"
    /\ queue # <<>>
    /\ batch' = Append(batch, Head(queue))
    /\ dequeued' = Append(dequeued, Head(queue))
    /\ queue' = Tail(queue)
    /\ timed_out' = FALSE
    /\ worker_pc' = "check"
    /\ UNCHANGED <<log_stop_event, collection_writes, enqueued,
                   enqueue_args, stop_pc, stop_calls, stop_returns,
                   pre_stop>>
    /\ UNCHANGED logOthers

\* lines 68, 70-71: the queue stayed empty for flush_interval_sec, Empty
WorkerEmpty ==
    /\ worker_pc = "get"
    /\ queue = <<>>
    /\ timed_out' = TRUE
    /\ worker_pc' = "check"
    /\ UNCHANGED <<queue, log_stop_event, batch, collection_writes,
                   dequeued, enqueued, enqueue_args, stop_pc, stop_calls,
                   stop_returns, pre_stop>>
    /\ UNCHANGED logOthers

\* line 73: decide whether the loop flushes
WorkerCheck ==
    /\ worker_pc = "check"
    /\ worker_pc' = IF ShouldFlush(batch, log_stop_event)
                    THEN "insert" ELSE "while"
    /\ UNCHANGED <<queue, log_stop_event, batch, timed_out,
                   collection_writes, dequeued, enqueued, enqueue_args,
                   stop_pc, stop_calls, stop_returns, pre_stop>>
    /\ UNCHANGED logOthers

\* no except clause: the exception of insert_many ends the thread
InsertUncaught(ok) == IF ok THEN "while" ELSE "done"

\* lines 74-78: the exception of insert_many is caught and printed; the
\* worker goes on with the loop either way
AfterInsert(ok) == "while"

\* lines 74-78: insert_many(batch) returns or raises, then batch.clear()
WorkerInsert(ok) ==
    /\ worker_pc = "insert"
    /\ collection_writes' =
           Append(collection_writes, [docs |-> batch, ok |-> ok, line |-> 75])
    /\ batch' = BatchAfterInsert(batch, ok)
    /\ worker_pc' = AfterInsert(ok)
    /\ UNCHANGED <<queue, log_stop_event, timed_out, dequeued, enqueued,
                   enqueue_args, stop_pc, stop_calls, stop_returns,
                   pre_stop>>
    /\ UNCHANGED logOthers

\* the shutdown flush without the test of line 81
WorkerAfterAlways ==
    /\ worker_pc = "after"
    /\ worker_pc' = "insert_final"
    /\ UNCHANGED <<queue, log_stop_event, batch, timed_out,
                   collection_writes, dequeued, enqueued, enqueue_args,
                   stop_pc, stop_calls, stop_returns, pre_stop>>
    /\ UNCHANGED logOthers

\* line 81: if batch, after the loop
WorkerAfter ==
    /\ worker_pc = "after"
    /\ worker_pc' = IF batch # <<>> THEN "insert_final" ELSE "done"
    /\ UNCHANGED <<queue, log_stop_event, batch, timed_out,
                   collection_writes, dequeued, enqueued, enqueue_args,
                   stop_pc, stop_calls, stop_returns, pre_stop>>
    /\ UNCHANGED logOthers

\* lines 82-85: the shutdown insert_many(batch); the thread then ends
WorkerInsertFinal(ok) ==
    /\ worker_pc = "insert_final"
    /\ collection_writes' =
           Append(collection_writes, [docs |-> batch, ok |-> ok, line |-> 83])
    /\ worker_pc' = "done"
    /\ UNCHANGED <<queue, log_stop_event, batch, timed_out, dequeued,
                   enqueued, enqueue_args, stop_pc, stop_calls,
                   stop_returns, pre_stop>>
    /\ UNCHANGED logOthers

\* stop() flipping the event instead of setting it
StopSetToggle ==
    /\ worker_pc # "none"
    /\ stop_pc = "idle"
    /\ stop_calls < MaxStops
    /\ log_stop_event' = ~log_stop_event
    /\ stop_pc' = "join"
    /\ stop_calls' = stop_calls + 1
    /\ pre_stop' = IF stop_calls = 0 THEN enqueued ELSE pre_stop
    /\ UNCHANGED <<queue, batch, worker_pc, timed_out, collection_writes,
                   dequeued, enqueued, enqueue_args, stop_returns>>
    /\ UNCHANGED logOthers

\* line 88: self._stop_event.set()
StopSet ==
    /\ worker_pc # "none"
    /\ stop_pc = "idle"
    /\ stop_calls < MaxStops
    /\ log_stop_event' = TRUE
    /\ stop_pc' = "join"
    /\ stop_calls' = stop_calls + 1
    /\ pre_stop' = IF stop_calls = 0 THEN enqueued ELSE pre_stop
    /\ UNCHANGED <<queue, batch, worker_pc, timed_out, collection_writes,
                   dequeued, enqueued, enqueue_args, stop_returns>>
    /\ UNCHANGED logOthers

\* a stop() that clears the event and starts the worker again
StopJoinRestart ==
    /\ stop_pc = "join"
    /\ worker_pc = "done"
    /\ stop_pc' = "idle"
    /\ stop_returns' = stop_returns + 1
    /\ log_stop_event' = FALSE
    /\ worker_pc' = "while"
    /\ batch' = <<>>
    /\ UNCHANGED <<queue, timed_out, collection_writes, dequeued, enqueued,
                   enqueue_args, stop_calls, pre_stop>>
    /\ UNCHANGED logOthers

\* line 89: self.worker_thread.join() returns once the thread has ended
StopJoin ==
    /\ stop_pc = "join"
    /\ worker_pc = "done"
    /\ stop_pc' = "idle"
    /\ stop_returns' = stop_returns + 1
    /\ UNCHANGED <<queue, log_stop_event, batch, worker_pc, timed_out,
                   collection_writes, dequeued, enqueued, enqueue_args,
                   stop_calls, pre_stop>>
    /\ UNCHANGED logOthers

NextLog ==
    \/ \E record \in LogRecords, span \in CurrentSpans :
           enqueue(record, span)
    \/ WorkerWhile
    \/ WorkerGet
    \/ WorkerEmpty
    \/ WorkerCheck
    \/ \E ok \in BOOLEAN : WorkerInsert(ok)
    \/ WorkerAfter
    \/ \E ok \in BOOLEAN : WorkerInsertFinal(ok)
    \/ StopSet
    \/ StopJoin

\* ------------------------------------------------------------------------
\* MongoDBTraceExporter: operations
\* ------------------------------------------------------------------------
\* number of spans handed to export
MaxSpans == 3
\* batch_size the MongoDBTraceExporter is constructed with
trace_batch_size == 3

\* flush_interval the MongoDBTraceExporter is constructed with, in units of
\* time
flush_interval == 1
\* number of export calls
MaxExports == 2
\* number of spans of one export call
MaxExportLen == 2

\* the TenantId attribute of an exported span, NoAttr when it has none
SpanAttrs == {"a", NoAttr}

\* the end_time of a span that has not ended (None)
NotEnded == -1

\* the spans handed to export: the TenantId attribute and the end_time
ExportSpans ==
    [TenantId : SpanAttrs, end_time : {1}] \cup
    {[TenantId |-> "a", end_time |-> NotEnded]}

\* the span lists of an export call
ExportInputs ==
    UNION {[1..k -> ExportSpans] : k \in 0..MaxExportLen}

\* line 46: span.end_time - span.start_time raises TypeError on None
BuildRaises(span) == span.end_time = NotEnded

\* line 31: span.attributes.get("TenantId", "default")
SpanTenant(attr) == IF attr = NoAttr THEN "default" ELSE attr

\* _build_document: the fields of the document the pipeline depends on;
\* n stands for the span id
_build_document(n, tenant_id) == [SpanId |-> n, TenantId |-> tenant_id]

\* the keys of the dict, in insertion order
Keys(d) == [i \in 1..Len(d) |-> d[i].tenant]

\* batch_by_tenant[tenant_id] = [doc]: the tenant's earlier docs are replaced
SetOverwrite(d, tenant_id, doc) ==
    IF \E i \in 1..Len(d) : d[i].tenant = tenant_id
    THEN [i \in 1..Len(d) |->
             IF d[i].tenant = tenant_id
             THEN [tenant |-> tenant_id, docs |-> <<doc>>]
             ELSE d[i]]
    ELSE Append(d, [tenant |-> tenant_id, docs |-> <<doc>>])

\* line 63: batch_by_tenant.setdefault(tenant_id, []).append(doc)
SetDefaultAppend(d, tenant_id, doc) ==
    IF \E i \in 1..Len(d) : d[i].tenant = tenant_id
    THEN [i \in 1..Len(d) |->
             IF d[i].tenant = tenant_id
             THEN [tenant |-> tenant_id, docs |-> Append(d[i].docs, doc)]
             ELSE d[i]]
    ELSE Append(d, [tenant |-> tenant_id, docs |-> <<doc>>])

\* line 61: the inner loop continues while len(batch_by_tenant) < batch_size
InnerLoopContinues(d) == Len(d) < trace_batch_size

TraceAbsent ==
    /\ trace_queue = <<>>
    /\ trace_stop_event = FALSE
    /\ batch_by_tenant = <<>>
    /\ flushing = <<>>
    /\ trace_pc = "none"
    /\ db_writes = <<>>
    /\ flush_inputs = <<>>
    /\ flush_input = <<>>
    /\ get_waited = 0
    /\ batch_age = 0
    /\ exported = 0
    /\ export_calls = 0
    /\ export_result = "none"
    /\ export_pending = <<>>
    /\ client_closed = FALSE
    /\ shutdown_pc = "idle"
    /\ shutdown_calls = 0
    /\ shutdown_returns = 0
    /\ trace_pre_stop = -1

\* MongoDBTraceExporter.__init__: empty queue, event clear, worker started
TraceConstructed ==
    /\ trace_queue = <<>>
    /\ trace_stop_event = FALSE
    /\ batch_by_tenant = <<>>
    /\ flushing = <<>>
    /\ trace_pc = "outer"
    /\ db_writes = <<>>
    /\ flush_inputs = <<>>
    /\ flush_input = <<>>
    /\ get_waited = 0
    /\ batch_age = 0
    /\ exported = 0
    /\ export_calls = 0
    /\ export_result = "none"
    /\ export_pending = <<>>
    /\ client_closed = FALSE
    /\ shutdown_pc = "idle"
    /\ shutdown_calls = 0
    /\ shutdown_returns = 0
    /\ trace_pre_stop = -1

\* lines 31-32 for one span, the n-th put on the queue: the queue item
ExportItem(span, n) ==
    <<SpanTenant(span.TenantId), _build_document(n, SpanTenant(span.TenantId))>>

\* the spans the export calls in progress have still to put
PendingSpans ==
    LET RECURSIVE Sum(_)
        Sum(q) == IF q = <<>> THEN 0 ELSE Len(Head(q)) + Sum(Tail(q))
    IN Sum(export_pending)

\* the sequence q without its i-th element
RemoveAt(q, i) == SubSeq(q, 1, i - 1) \o SubSeq(q, i + 1, Len(q))

\* lines 31-33 for the next span of a call whose remaining spans are rest;
\* i is the call's place in export_pending, 0 for a call that begins. The
\* conversion of the span raises, which ends the call (export catches
\* nothing), or the item is put on the queue (one Queue.put, atomic under
\* the queue's mutex); after the last span export returns SUCCESS (line 34)
ExportStep(rest, i) ==
    LET left == Tail(rest)
        others == IF i = 0 THEN export_pending
                  ELSE RemoveAt(export_pending, i)
    IN IF BuildRaises(Head(rest))
       THEN /\ export_result' = "raised"
            /\ export_pending' = others
            /\ UNCHANGED <<trace_queue, exported>>
       ELSE /\ trace_queue' =
                   Append(trace_queue, ExportItem(Head(rest), exported + 1))
            /\ exported' = exported + 1
            /\ IF left = <<>>
               THEN /\ export_result' = "SUCCESS"
                    /\ export_pending' = others
               ELSE /\ export_pending' =
                           IF i = 0 THEN Append(export_pending, left)
                           ELSE [export_pending EXCEPT ![i] = left]
                    /\ UNCHANGED export_result

\* export(spans), lines 28-34, from the call up to and including its first
\* put; an empty list returns SUCCESS at once
export(spans) ==
    /\ trace_pc # "none"
    /\ export_calls < MaxExports
    /\ exported + PendingSpans + Len(spans) <= MaxSpans
    /\ export_calls' = export_calls + 1
    /\ IF spans = <<>>
       THEN /\ export_result' = "SUCCESS"
            /\ UNCHANGED <<trace_queue, exported, export_pending>>
       ELSE ExportStep(spans, 0)
    /\ UNCHANGED <<trace_stop_event, batch_by_tenant, flushing, trace_pc,
                   db_writes, flush_inputs, flush_input, get_waited,
                   batch_age, client_closed, shutdown_pc, shutdown_calls,
                   shutdown_returns, trace_pre_stop>>
    /\ UNCHANGED traceOthers

\* lines 30-33: the i-th export call in progress goes on with its next span
ExportNext(i) ==
    /\ i \in 1..Len(export_pending)
    /\ ExportStep(export_pending[i], i)
    /\ UNCHANGED <<trace_stop_event, batch_by_tenant, flushing, trace_pc,
                   db_writes, flush_inputs, flush_input, get_waited,
                   batch_age, export_calls, client_closed, shutdown_pc,
                   shutdown_calls, shutdown_returns, trace_pre_stop>>
    /\ UNCHANGED traceOthers

\* The worker's steps between two accesses to shared state (the stop event,
\* the queue, the sink) touch only its local dict and are part of the step
\* that precedes them.

\* lines 67-69 reached with the dict d: the position the worker goes to,
\* "flush" to write d (line 68) or "outer" when d is empty
AfterInnerLoop(d) == IF d # <<>> THEN "flush" ELSE "outer"

\* line 61 reached with the dict d: the position the worker goes to
AtInnerLoop(d) == IF InnerLoopContinues(d) THEN "get" ELSE AfterInnerLoop(d)

\* line 68: _flush_to_mongo(batch_by_tenant) begins when the worker moves
\* to "flush"; the queue items removed for it are noted
BeginFlush(to, d, input) ==
    IF to = "flush"
    THEN /\ flushing' = d
         /\ flush_inputs' = Append(flush_inputs, input)
         /\ flush_input' = <<>>
    ELSE /\ flush_input' = input
         /\ UNCHANGED <<flushing, flush_inputs>>

\* line 58: while not self._stop_event.is_set(), then line 61
RunOuter ==
    /\ trace_pc = "outer"
    /\ trace_pc' = IF trace_stop_event THEN "done"
                   ELSE AtInnerLoop(batch_by_tenant)
    /\ BeginFlush(trace_pc', batch_by_tenant, flush_input)
    /\ UNCHANGED <<trace_queue, trace_stop_event, batch_by_tenant,
                   db_writes, get_waited, batch_age, exported,
                   export_calls, export_result, export_pending,
                   client_closed, shutdown_pc,
                   shutdown_calls, shutdown_returns, trace_pre_stop>>
    /\ UNCHANGED traceOthers

\* a get that leaves the item on the queue
RunGetPeek ==
    /\ trace_pc = "get"
    /\ trace_queue # <<>>
    /\ batch_by_tenant' = SetDefaultAppend(batch_by_tenant,
                              Head(trace_queue)[1], Head(trace_queue)[2])
    /\ trace_queue' = trace_queue
    /\ trace_pc' = AtInnerLoop(batch_by_tenant')
    /\ BeginFlush(trace_pc', batch_by_tenant',
                  Append(flush_input, Head(trace_queue)))
    /\ get_waited' = 0
    /\ batch_age' = IF trace_pc' = "flush" THEN 0 ELSE batch_age
    /\ UNCHANGED <<trace_stop_event, db_writes, exported, export_calls,
                   export_result, export_pending, client_closed, shutdown_pc,
                   shutdown_calls, shutdown_returns, trace_pre_stop>>
    /\ UNCHANGED traceOthers

\* lines 62-63: the get returns an item, which is filed under its tenant;
\* then line 61
RunGet ==
    /\ trace_pc = "get"
    /\ trace_queue # <<>>
    /\ batch_by_tenant' = SetDefaultAppend(batch_by_tenant,
                              Head(trace_queue)[1], Head(trace_queue)[2])
    /\ trace_queue' = Tail(trace_queue)
    /\ trace_pc' = AtInnerLoop(batch_by_tenant')
    /\ BeginFlush(trace_pc', batch_by_tenant',
                  Append(flush_input, Head(trace_queue)))
    /\ get_waited' = 0
    /\ batch_age' = IF trace_pc' = "flush" THEN 0 ELSE batch_age
    /\ UNCHANGED <<trace_stop_event, db_writes, exported, export_calls,
                   export_result, export_pending, client_closed, shutdown_pc,
                   shutdown_calls, shutdown_returns, trace_pre_stop>>
    /\ UNCHANGED traceOthers

\* line 62: one unit of time passes while queue.get(timeout=flush_interval)
\* is blocked on the empty queue; a get that finds an item returns at once
GetWaits ==
    /\ trace_pc = "get"
    /\ trace_queue = <<>>
    /\ get_waited < flush_interval
    /\ get_waited' = get_waited + 1
    /\ batch_age' = IF batch_by_tenant = <<>> THEN 0
                    ELSE IF batch_age > flush_interval THEN batch_age
                    ELSE batch_age + 1
    /\ UNCHANGED <<trace_queue, trace_stop_event, batch_by_tenant, flushing,
                   trace_pc, db_writes, flush_inputs, flush_input, exported,
                   export_calls, export_result, export_pending,
                   client_closed, shutdown_pc,
                   shutdown_calls, shutdown_returns, trace_pre_stop>>
    /\ UNCHANGED traceOthers

\* lines 62, 64-65: the queue stayed empty for flush_interval, Empty; then
\* line 67
RunEmpty ==
    /\ trace_pc = "get"
    /\ trace_queue = <<>>
    /\ get_waited = flush_interval
    /\ trace_pc' = AfterInnerLoop(batch_by_tenant)
    /\ BeginFlush(trace_pc', batch_by_tenant, flush_input)
    /\ get_waited' = 0
    /\ batch_age' = 0
    /\ UNCHANGED <<trace_queue, trace_stop_event, batch_by_tenant,
                   db_writes, exported, export_calls, export_result,
                   export_pending,
                   client_closed, shutdown_pc, shutdown_calls,
                   shutdown_returns, trace_pre_stop>>
    /\ UNCHANGED traceOthers

\* a try around the whole loop: a raising insert_many ends the flush
FlushRestAbort(rest, ok) == IF ok THEN rest ELSE <<>>

\* lines 72-76: the try is inside the for loop, so the tenants that remain
\* after an insert_many are the same whether it returned or raised
FlushRest(rest, ok) == rest

\* lines 72-76: one round of the loop of _flush_to_mongo: the insert_many
\* of one tenant's docs returns or raises. After the last round
\* _flush_to_mongo returns and line 69 resets the dict
FlushInsert(ok) ==
    /\ trace_pc = "flush"
    /\ flushing # <<>>
    /\ db_writes' = Append(db_writes,
           [coll |-> Head(flushing).tenant, docs |-> Head(flushing).docs,
            ok |-> ok, flush |-> Len(flush_inputs)])
    /\ flushing' = FlushRest(Tail(flushing), ok)
    /\ IF flushing' = <<>>
       THEN batch_by_tenant' = <<>> /\ trace_pc' = "outer"
       ELSE UNCHANGED <<batch_by_tenant, trace_pc>>
    /\ UNCHANGED <<trace_queue, trace_stop_event, flush_inputs,
                   flush_input, get_waited, batch_age, exported,
                   export_calls, export_result, export_pending,
                   client_closed, shutdown_pc,
                   shutdown_calls, shutdown_returns, trace_pre_stop>>
    /\ UNCHANGED traceOthers

\* line 79: self._stop_event.set()
ShutdownSet ==
    /\ trace_pc # "none"
    /\ shutdown_pc = "idle"
    /\ shutdown_calls < MaxStops
    /\ trace_stop_event' = TRUE
    /\ shutdown_pc' = "join"
    /\ shutdown_calls' = shutdown_calls + 1
    /\ trace_pre_stop' = IF shutdown_calls = 0 THEN exported
                         ELSE trace_pre_stop
    /\ UNCHANGED <<trace_queue, batch_by_tenant, flushing, trace_pc,
                   db_writes, flush_inputs, flush_input, get_waited,
                   batch_age, exported, export_calls, export_result,
                   export_pending,
                   client_closed, shutdown_returns>>
    /\ UNCHANGED traceOthers

\* lines 80-81: join(timeout=5) returns when the thread has ended or when
\* the five seconds are over, whichever comes first; then
\* self._client.close(), and shutdown returns
ShutdownJoinClose ==
    /\ shutdown_pc = "join"
    /\ client_closed' = TRUE
    /\ shutdown_pc' = "idle"
    /\ shutdown_returns' = shutdown_returns + 1
    /\ UNCHANGED <<trace_queue, trace_stop_event, batch_by_tenant,
                   flushing, trace_pc, db_writes, flush_inputs,
                   flush_input, get_waited, batch_age, exported,
                   export_calls, export_result, export_pending, shutdown_calls,
                   trace_pre_stop>>
    /\ UNCHANGED traceOthers

NextTrace ==
    \/ \E spans \in ExportInputs : export(spans)
    \/ \E i \in 1..MaxExports : ExportNext(i)
    \/ RunOuter
    \/ RunGet
    \/ GetWaits
    \/ RunEmpty
    \/ \E ok \in BOOLEAN : FlushInsert(ok)
    \/ ShutdownSet
    \/ ShutdownJoinClose

\* ------------------------------------------------------------------------
\* MongoDBDynamicSink: operations (tasks of one asyncio event loop; a task
\* runs without interruption from one await to the next)
\* ------------------------------------------------------------------------
\* number of emit calls
MaxEmits == 3
\* number of wake-ups of _flush_periodically
MaxTicks == 2
\* batch_size the MongoDBDynamicSink is constructed with
sink_batch_size == 2

Free == -1
SinkTasks == 0..MaxEmits

\* the log_event passed to the p-th emit call
LogEvent(p) == [event |-> p]

SinkAbsent ==
    /\ sink_batch = <<>>
    /\ sink_lock = Free
    /\ sink_waiters = <<>>
    /\ sink_pc = [p \in SinkTasks |-> IF p = 0 THEN "none" ELSE "unborn"]
    /\ sink_writes = <<>>
    /\ emitted = 0
    /\ ticks = 0

\* MongoDBDynamicSink.__init__: empty batch, _flush_periodically started
SinkConstructed ==
    /\ sink_batch = <<>>
    /\ sink_lock = Free
    /\ sink_waiters = <<>>
    /\ sink_pc = [p \in SinkTasks |-> IF p = 0 THEN "sleep" ELSE "unborn"]
    /\ sink_writes = <<>>
    /\ emitted = 0
    /\ ticks = 0

\* asyncio.Lock.acquire returns at once when the lock is free and nobody
\* waits for it
LockAvailable == sink_lock = Free /\ sink_waiters = <<>>

\* line 25: emit flushes when len(self.batch) >= self.batch_size
EmitFlushes(b) == Len(b) >= sink_batch_size

\* a clear that runs whether or not insert_many returned
SinkBatchClearedAlways(b, ok) == <<>>

\* lines 32-33: the batch is cleared after an insert_many that returned
SinkBatchAfterInsert(b, ok) == IF ok THEN <<>> ELSE b

\* task p runs from the moment it holds the lock to its next await:
\*   emit (lines 24-26): append, then flush() when the batch is full;
\*   _flush_periodically (line 41): flush();
\*   flush (lines 29-31) returns at once on an empty batch and otherwise
\*   awaits insert_many(self.batch) with the lock held
RunLocked(p) ==
    /\ sink_batch' = IF p = 0 THEN sink_batch
                     ELSE Append(sink_batch, LogEvent(p))
    /\ IF (p = 0 /\ sink_batch # <<>>) \/ (p # 0 /\ EmitFlushes(sink_batch'))
       THEN /\ sink_lock' = p
            /\ sink_pc' = [sink_pc EXCEPT ![p] = "insert"]
       ELSE /\ sink_lock' = Free
            /\ sink_pc' = [sink_pc EXCEPT ![p] = IF p = 0 THEN "sleep"
                                                 ELSE "done"]

\* task p suspends in `async with self.lock` (lines 23, 40)
WaitForLock(p) ==
    /\ sink_waiters' = Append(sink_waiters, p)
    /\ sink_pc' = [sink_pc EXCEPT ![p] = "wait_lock"]
    /\ UNCHANGED <<sink_batch, sink_lock>>

\* emit(log_event), lines 22-26, up to its first suspension
emit ==
    /\ sink_pc[0] # "none"
    /\ emitted < MaxEmits
    /\ emitted' = emitted + 1
    /\ IF LockAvailable
       THEN RunLocked(emitted + 1) /\ UNCHANGED sink_waiters
       ELSE WaitForLock(emitted + 1)
    /\ UNCHANGED <<sink_writes, ticks>>
    /\ UNCHANGED sinkOthers

\* line 39: asyncio.sleep(self.flush_interval) is over, line 40 follows
PeriodicWake ==
    /\ sink_pc[0] = "sleep"
    /\ ticks < MaxTicks
    /\ ticks' = ticks + 1
    /\ IF LockAvailable
       THEN RunLocked(0) /\ UNCHANGED sink_waiters
       ELSE WaitForLock(0)
    /\ UNCHANGED <<sink_writes, emitted>>
    /\ UNCHANGED sinkOthers

\* the lock was released and the longest waiting task gets it
LockGranted(p) ==
    /\ sink_pc[p] = "wait_lock"
    /\ sink_lock = Free
    /\ sink_waiters # <<>>
    /\ Head(sink_waiters) = p
    /\ sink_waiters' = Tail(sink_waiters)
    /\ RunLocked(p)
    /\ UNCHANGED <<sink_writes, emitted, ticks>>
    /\ UNCHANGED sinkOthers

\* lines 31-35: the insert_many awaited by task p returns or raises; flush
\* returns and the lock is released
InsertReturn(p, ok) ==
    /\ sink_pc[p] = "insert"
    /\ sink_writes' = Append(sink_writes,
                          [docs |-> sink_batch, ok |-> ok, task |-> p])
    /\ sink_batch' = SinkBatchAfterInsert(sink_batch, ok)
    /\ sink_lock' = Free
    /\ sink_pc' = [sink_pc EXCEPT ![p] = IF p = 0 THEN "sleep" ELSE "done"]
    /\ UNCHANGED <<sink_waiters, emitted, ticks>>
    /\ UNCHANGED sinkOthers

NextSink ==
    \/ emit
    \/ PeriodicWake
    \/ \E p \in SinkTasks : LockGranted(p)
    \/ \E p \in SinkTasks, ok \in BOOLEAN : InsertReturn(p, ok)

\* ------------------------------------------------------------------------
\* LmtServiceBusSender: operations
\* ------------------------------------------------------------------------
\* number of batches the accumulator seals
MaxSealed == 3
\* number of passes of the retry timer
MaxTimerFires == 2
\* max_retries the sender is constructed with
max_retries == 2
\* max_failed_batches the sender is constructed with
max_failed_batches == 2

\* the retry ceiling of quarantine re-attempts
retry_ceiling == max_retries

\* send_logs_async is called by the accumulator's flush and by the timer
Callers == {"flush", "timer"}

\* the records of the n-th sealed batch
BatchLogs(n) == <<10 * n + 1, 10 * n + 2>>

\* a call of send_logs_async: the batch, the retry_count
\* argument, the transmissions made and those that failed
IdleCall == [pc |-> "idle", logs |-> <<>>, retry_count |-> 0,
             calls |-> 0, fails |-> 0]

\* giving up one attempt early
ExhaustedEarly(attempts) == attempts >= max_retries - 1

\* the attempts are used up after max_retries transmissions
Exhausted(attempts) == attempts >= max_retries

\* the FailedLogBatch keeping the retry_count of the call
SameRetryCount(retry_count) == retry_count

\* every FailedLogBatch starting again with RetryCount 1
ResetRetryCount(retry_count) == 1

\* the RetryCount of the FailedLogBatch made of a batch sent with retry_count
NextRetryCount(retry_count) == retry_count + 1

\* a full quarantine rejecting the new entry instead of evicting the oldest
QuarantineAddRejectNewest(store, entry) ==
    IF Len(store) >= max_failed_batches
    THEN store
    ELSE Append(store, entry)

\* adding to the bounded quarantine evicts the oldest entry when it is full
QuarantineAdd(store, entry) ==
    IF Len(store) >= max_failed_batches
    THEN Append(Tail(store), entry)
    ELSE Append(store, entry)

\* the position of the FailedBatch of a batch in the quarantine, 0 when the
\* quarantine does not hold it
EntryIndex(store, logs) ==
    IF \E i \in 1..Len(store) : store[i].Logs = logs
    THEN CHOOSE i \in 1..Len(store) : store[i].Logs = logs
    ELSE 0

\* a quarantine that keeps the entry of a batch
KeepEntry(store, logs) == store

\* the quarantine without the entry of a batch
RemoveEntry(store, logs) == SelectSeq(store, LAMBDA e : e.Logs # logs)

\* the batches of the quarantine, oldest first
QuarantinedBatches(store) == [i \in 1..Len(store) |-> store[i].Logs]

\* the retry timer has a pass under way
PassRunning == pass_index < Len(pass_batches)

SenderAbsent ==
    /\ failed_log_batches = <<>>
    /\ sender = [c \in Callers |-> [IdleCall EXCEPT !.pc = "none"]]
    /\ delivered = <<>>
    /\ sealed = 0
    /\ timer_fires = 0
    /\ pass_batches = <<>>
    /\ pass_index = 0
    /\ sink_recovered = FALSE

\* LmtServiceBusSender.__init__: empty quarantine, retry timer started
SenderConstructed ==
    /\ failed_log_batches = <<>>
    /\ sender = [c \in Callers |-> IdleCall]
    /\ delivered = <<>>
    /\ sealed = 0
    /\ timer_fires = 0
    /\ pass_batches = <<>>
    /\ pass_index = 0
    /\ sink_recovered = FALSE

\* the accumulator seals a batch and calls send_logs_async(logs)
SendSealed ==
    /\ sender["flush"].pc \notin {"none", "sending"}
    /\ sealed < MaxSealed
    /\ sealed' = sealed + 1
    /\ sender' = [sender EXCEPT !["flush"] =
           [pc |-> "sending",
            logs |-> BatchLogs(sealed + 1), retry_count |-> 0,
            calls |-> 0, fails |-> 0]]
    /\ UNCHANGED <<failed_log_batches, delivered, timer_fires, pass_batches,
                   pass_index>>
    /\ UNCHANGED sink_recovered
    /\ UNCHANGED senderOthers

\* the last attempt of a send of the accumulator has failed: the batch is
\* handed to the quarantine with RetryCount 1
FlushExhausted(call) ==
    LET entry == [Logs |-> call.logs,
                  RetryCount |-> NextRetryCount(call.retry_count)]
    IN IF entry.RetryCount > retry_ceiling
       THEN /\ sender' = [sender EXCEPT !["flush"] =
                              [call EXCEPT !.pc = "discarded"]]
            /\ UNCHANGED failed_log_batches
       ELSE /\ failed_log_batches' =
                   QuarantineAdd(failed_log_batches, entry)
            /\ sender' = [sender EXCEPT !["flush"] =
                              [call EXCEPT !.pc = "quarantined"]]

\* the last attempt of a re-submission by the timer has failed: the
\* RetryCount of the entry, which the quarantine still holds unless it was
\* evicted meanwhile, is incremented, and the entry is discarded when the
\* count exceeds the ceiling
TimerExhausted(call) ==
    LET i == EntryIndex(failed_log_batches, call.logs)
        count == NextRetryCount(call.retry_count)
    IN IF i = 0
       THEN /\ sender' = [sender EXCEPT !["timer"] =
                              [call EXCEPT !.pc = "evicted"]]
            /\ UNCHANGED failed_log_batches
       ELSE IF count > retry_ceiling
       THEN /\ failed_log_batches' =
                   RemoveEntry(failed_log_batches, call.logs)
            /\ sender' = [sender EXCEPT !["timer"] =
                              [call EXCEPT !.pc = "discarded"]]
       ELSE /\ failed_log_batches' =
                   [failed_log_batches EXCEPT ![i].RetryCount = count]
            /\ sender' = [sender EXCEPT !["timer"] =
                              [call EXCEPT !.pc = "quarantined"]]

\* one attempt of send_logs_async: the sink accepts the batch, and the
\* entry of a batch the timer re-submitted is removed from the quarantine;
\* or the sink fails, and after the last failed attempt the batch goes to
\* the quarantine or, for a re-submission, its entry is updated
Transmit(c, ok) ==
    /\ sender[c].pc = "sending"
    /\ sink_recovered => ok
    /\ LET call == [sender[c] EXCEPT
                       !.calls = @ + 1,
                       !.fails = IF ok THEN @ ELSE @ + 1]
       IN IF ok
          THEN /\ delivered' = Append(delivered, call.logs)
               /\ sender' = [sender EXCEPT ![c] =
                                 [call EXCEPT !.pc = "delivered"]]
               /\ failed_log_batches' =
                      IF c = "timer"
                      THEN RemoveEntry(failed_log_batches, call.logs)
                      ELSE failed_log_batches
          ELSE IF ~Exhausted(call.calls)
          THEN /\ sender' = [sender EXCEPT ![c] = call]
               /\ UNCHANGED <<failed_log_batches, delivered>>
          ELSE /\ IF c = "timer" THEN TimerExhausted(call)
                  ELSE FlushExhausted(call)
               /\ UNCHANGED delivered
    /\ UNCHANGED <<sealed, timer_fires, pass_batches, pass_index>>
    /\ UNCHANGED sink_recovered
    /\ UNCHANGED senderOthers

\* the retry timer fires and begins a pass over the batches the quarantine
\* holds at that time
TimerFire ==
    /\ sender["timer"].pc \notin {"none", "sending"}
    /\ ~PassRunning
    /\ failed_log_batches # <<>>
    /\ timer_fires < MaxTimerFires \/ sink_recovered
    /\ timer_fires' = IF timer_fires < MaxTimerFires THEN timer_fires + 1
                      ELSE timer_fires
    /\ pass_batches' = QuarantinedBatches(failed_log_batches)
    /\ pass_index' = 0
    /\ UNCHANGED <<failed_log_batches, sender, delivered, sealed>>
    /\ UNCHANGED sink_recovered
    /\ UNCHANGED senderOthers

\* a pass that removes the next batch from the quarantine without sending it
TimerTakeDrop ==
    /\ sender["timer"].pc \notin {"none", "sending"}
    /\ PassRunning
    /\ pass_index' = pass_index + 1
    /\ failed_log_batches' =
           RemoveEntry(failed_log_batches, pass_batches[pass_index + 1])
    /\ UNCHANGED <<sender, delivered, sealed, timer_fires, pass_batches>>
    /\ UNCHANGED sink_recovered
    /\ UNCHANGED senderOthers

\* the pass goes to its next batch and, when the quarantine still holds it,
\* re-submits it with its RetryCount; the entry stays in the quarantine
\* while the batch is sent
TimerTake ==
    /\ sender["timer"].pc \notin {"none", "sending"}
    /\ PassRunning
    /\ pass_index' = pass_index + 1
    /\ LET logs == pass_batches[pass_index + 1]
           i == EntryIndex(failed_log_batches, logs)
       IN IF i = 0
          THEN UNCHANGED sender
          ELSE sender' = [sender EXCEPT !["timer"] =
                   [pc |-> "sending",
                    logs |-> logs,
                    retry_count |-> failed_log_batches[i].RetryCount,
                    calls |-> 0, fails |-> 0]]
    /\ UNCHANGED <<failed_log_batches, delivered, sealed, timer_fires,
                   pass_batches>>
    /\ UNCHANGED sink_recovered
    /\ UNCHANGED senderOthers

\* the outage of the sink ends
SinkRecovers ==
    /\ sender["flush"].pc # "none"
    /\ ~sink_recovered
    /\ sink_recovered' = TRUE
    /\ UNCHANGED <<failed_log_batches, sender, delivered, sealed,
                   timer_fires, pass_batches, pass_index>>
    /\ UNCHANGED senderOthers

NextSender ==
    \/ SendSealed
    \/ \E c \in Callers, ok \in BOOLEAN : Transmit(c, ok)
    \/ TimerFire
    \/ TimerTake
    \/ SinkRecovers

\* ------------------------------------------------------------------------
\* RedisClient: operations (coroutines of one asyncio event loop; a
\* coroutine runs without interruption from one await that suspends to the
\* next; the calls made on the client may overlap)
\* ------------------------------------------------------------------------
\* number of method calls on one RedisClient and of messages its
\* subscription tasks receive
MaxRedisOps == 3
\* number of key/value method calls among them
MaxCacheCommands == 1
\* number of messages among them
MaxMessages == 2

\* a further method call or message is within the bounds
WithinRedisOps ==
    redis_ops + cache_commands + Len(handler_calls) < MaxRedisOps

\* channel arguments: the empty string, None and a channel name
Channels == {"", None, "c1"}
\* handler arguments of subscribe_async
Handlers == {None, "h1", "h2"}

\* a validation that accepts every channel
ChannelAlwaysValid(channel) == FALSE

\* lines 238, 253, 280: `if not channel`
ChannelRejected(channel) == channel = "" \/ channel = None

RedisAbsent ==
    /\ subscriptions = {}
    /\ pubsub_tasks = {}
    /\ tasks = <<>>
    /\ async_client = FALSE
    /\ redis_calls = 0
    /\ redis_ops = 0
    /\ redis_call = [op |-> "none", channel |-> "", handler |-> None]
    /\ redis_result = "absent"
    /\ redis_disposed = FALSE
    /\ handler_calls = <<>>
    /\ redis_errors = 0
    /\ redis_pending = {}
    /\ pubsub_slots = 0
    /\ cache_commands = 0
    /\ redis_ready = <<>>

\* RedisClient.__init__: empty tables, no async client yet
RedisConstructed ==
    /\ subscriptions = {}
    /\ pubsub_tasks = {}
    /\ tasks = <<>>
    /\ async_client = FALSE
    /\ redis_calls = 0
    /\ redis_ops = 0
    /\ redis_call = [op |-> "none", channel |-> "", handler |-> None]
    /\ redis_result = "none"
    /\ redis_disposed = FALSE
    /\ handler_calls = <<>>
    /\ redis_errors = 0
    /\ redis_pending = {}
    /\ pubsub_slots = 0
    /\ cache_commands = 0
    /\ redis_ready = <<>>

\* dict.pop(key, None) and dict[key] = value on a table kept as a set of
\* <<key, value>> pairs
DictPop(table, key) == {e \in table : e[1] # key}
DictSet(table, key, value) == DictPop(table, key) \cup {<<key, value>>}
DictKeys(table) == {e[1] : e \in table}
DictGet(table, key) == (CHOOSE e \in table : e[1] = key)[2]

\* a call that is suspended: what it waits for (the "reply" of Redis, the
\* end of the "task" it cancelled, the "close" of the async client, the
\* reply to "hset"), the number of callbacks of the ready queue that were
\* queued before the wait began (behind) and, for a dispose_async suspended
\* inside its loop over self._pubsub_tasks.items(), the slot the dict
\* iterator will go on from (pos)
Suspended(id, op, channel, handler, wait, task, behind) ==
    [id |-> id, op |-> op, channel |-> channel, handler |-> handler,
     wait |-> wait, task |-> task, pos |-> pubsub_slots, behind |-> behind]

\* the method and the arguments of a suspended call
CallOf(r) == [op |-> r.op, channel |-> r.channel, handler |-> r.handler]

\* the next step of a dict iterator that has returned the one entry the
\* dict had when the loop began: RuntimeError when the size of the dict is
\* no longer 1 ("changed size during iteration") or when an entry sits in
\* a slot the iterator has not passed ("keys changed during iteration");
\* the single entry of the table is in the slot used last
IterRaises(pos) == Cardinality(pubsub_tasks) # 1 \/ pubsub_slots > pos

\* the event loop has run the callback at the head of its ready queue: one
\* callback less is ahead of every wait for Redis
Ran(behind) == IF behind > 0 THEN behind - 1 ELSE 0
PendingRan(pending) == {[r EXCEPT !.behind = Ran(@)] : r \in pending}
TasksRan(ts) == [k \in DOMAIN ts |-> [ts[k] EXCEPT !.behind = Ran(@)]]

\* the calls suspended at `await task` (lines 290, 357) for task k
AwaitersOf(k) ==
    {r.id : r \in {q \in redis_pending : q.wait = "task" /\ q.task = k}}

\* a task that ends wakes the calls that await it, in the order in which
\* they began to await it
RECURSIVE WakeUps(_)
WakeUps(ids) ==
    IF ids = {} THEN <<>>
    ELSE LET first == CHOOSE i \in ids : \A j \in ids : i <= j
         IN <<<<"call", first>>>> \o WakeUps(ids \ {first})

\* task.cancel() (lines 288, 355) only asks for the cancellation: the task
\* gets one CancelledError at its next step, however often it was asked; a
\* task that has ended is not affected
CancelTask(task) ==
    IF task.state = "ended" THEN task ELSE [task EXCEPT !.cancel = TRUE]

\* the ready queue after task.cancel() on task k: the wait of a task that
\* is suspended is cancelled and the next step of the task is queued; the
\* first step of a task that has not run is in the queue already
CancelQueued(k) ==
    IF tasks[k].state \in {"listening", "closing"} /\ ~tasks[k].cancel
    THEN Append(redis_ready, <<"task", k>>)
    ELSE redis_ready

\* a pub/sub or dispose method is called: the call is noted
RedisCall(op, channel, handler) ==
    /\ redis_result # "absent"
    /\ WithinRedisOps
    /\ redis_ops' = redis_ops + 1
    /\ redis_call' = [op |-> op, channel |-> channel, handler |-> handler]

\* the suspended call r goes on
RedisResume(r) ==
    /\ r \in redis_pending
    /\ redis_call' = CallOf(r)
    /\ UNCHANGED redis_ops

\* the reply of Redis that the call r waits for arrives: no callback queued
\* before the wait began is left in the ready queue
ReplyArrives(r, wait) ==
    /\ r \in redis_pending
    /\ r.wait = wait
    /\ r.behind = 0

\* the callback at the head of the ready queue is the wake-up of the call r
WokenUp(r) ==
    /\ r \in redis_pending
    /\ r.wait = "task"
    /\ redis_ready # <<>>
    /\ Head(redis_ready) = <<"call", r.id>>

\* the callback at the head of the ready queue is a step of task k
TaskStep(k) ==
    /\ k \in 1..Len(tasks)
    /\ redis_ready # <<>>
    /\ Head(redis_ready) = <<"task", k>>

\* task k, suspended at an await of Redis, gets what it waits for
TaskReply(k, state) ==
    /\ k \in 1..Len(tasks)
    /\ tasks[k].state = state
    /\ ~tasks[k].cancel
    /\ tasks[k].behind = 0

\* a key/value method is called and sends its commands: on the sync
\* client, or on the async client that _get_async_client (lines 60-63)
\* creates when there is none. No table of the client is read or written
CacheCall(is_async, commands) ==
    /\ redis_result # "absent"
    /\ WithinRedisOps
    /\ cache_commands < MaxCacheCommands
    /\ cache_commands' = cache_commands + 1
    /\ async_client' = (async_client \/ is_async)
    /\ redis_calls' = redis_calls + commands
    /\ UNCHANGED <<subscriptions, pubsub_tasks, tasks, redis_ops, redis_call,
                   redis_result, redis_disposed, handler_calls,
                   redis_errors, pubsub_slots, redis_ready>>
    /\ UNCHANGED redisOthers

\* a key/value method with one command, or with commands between which the
\* caller is not suspended
CacheCommand(is_async, commands) ==
    /\ CacheCall(is_async, commands)
    /\ UNCHANGED redis_pending

\* key_exists, lines 82-91: EXISTS
key_exists == CacheCommand(FALSE, 1)

\* add_string_value, lines 93-105: SET, or SETEX with a life span
add_string_value == CacheCommand(FALSE, 1)

\* get_string_value, lines 107-116: GET
get_string_value == CacheCommand(FALSE, 1)

\* remove_key, lines 118-127: DEL
remove_key == CacheCommand(FALSE, 1)

\* the commands of add_hash_value: HSET, then EXPIREAT when a life span
\* is given (lines 133-136) and HSET has not raised
HashCommands(has_life_span, hset_ok) ==
    IF has_life_span /\ hset_ok THEN 2 ELSE 1

\* add_hash_value, lines 129-142: the sync client blocks the event loop
\* from the first command to the last
add_hash_value(has_life_span, hset_ok) ==
    CacheCommand(FALSE, HashCommands(has_life_span, hset_ok))

\* get_hash_value, lines 144-153: HGETALL
get_hash_value == CacheCommand(FALSE, 1)

\* key_exists_async, lines 156-166
key_exists_async == CacheCommand(TRUE, 1)

\* add_string_value_async, lines 168-181
add_string_value_async == CacheCommand(TRUE, 1)

\* get_string_value_async, lines 183-193
get_string_value_async == CacheCommand(TRUE, 1)

\* remove_key_async, lines 195-205
remove_key_async == CacheCommand(TRUE, 1)

\* add_hash_value_async, lines 207-212, up to the await of client.hset:
\* HSET is sent. With a life span the call has more to do when the reply
\* has come
add_hash_value_async(has_life_span) ==
    /\ CacheCall(TRUE, 1)
    /\ redis_pending' =
           IF has_life_span
           THEN redis_pending \cup
                    {Suspended(cache_commands', "add_hash_value_async", None,
                               None, "hset", 0, Len(redis_ready))}
           ELSE redis_pending

\* add_hash_value_async, lines 212-221: client.hset returns and EXPIREAT is
\* sent (line 215), or client.hset raises and the call raises
HashSetReply(r, ok) ==
    /\ ReplyArrives(r, "hset")
    /\ redis_calls' = IF ok THEN redis_calls + 1 ELSE redis_calls
    /\ redis_pending' = redis_pending \ {r}
    /\ UNCHANGED <<subscriptions, pubsub_tasks, tasks, async_client,
                   redis_ops, redis_call, redis_result, redis_disposed,
                   handler_calls, redis_errors, pubsub_slots,
                   cache_commands, redis_ready>>
    /\ UNCHANGED redisOthers

\* get_hash_value_async, lines 223-234
get_hash_value_async == CacheCommand(TRUE, 1)

\* publish_async(channel, message), lines 236-244, up to the await of
\* client.publish
publish_async(channel) ==
    /\ RedisCall("publish", channel, None)
    /\ IF ChannelRejected(channel)
       THEN /\ redis_result' = "ValueError"
            /\ UNCHANGED <<async_client, redis_calls, redis_pending>>
       ELSE /\ async_client' = TRUE
            /\ redis_calls' = redis_calls + 1
            /\ redis_pending' = redis_pending \cup
                   {Suspended(redis_ops', "publish", channel, None,
                              "reply", 0, Len(redis_ready))}
            /\ redis_result' = "pending"
    /\ UNCHANGED <<subscriptions, pubsub_tasks, tasks, redis_disposed,
                   handler_calls, redis_errors, cache_commands>>
    /\ UNCHANGED <<pubsub_slots, redis_ready>>
    /\ UNCHANGED redisOthers

\* lines 244-249: client.publish returns, or raises and publish_async
\* raises
PublishReply(r, ok) ==
    /\ ReplyArrives(r, "reply")
    /\ RedisResume(r)
    /\ r.op = "publish"
    /\ redis_pending' = redis_pending \ {r}
    /\ redis_result' = IF ok THEN "returned" ELSE "RedisError"
    /\ UNCHANGED <<subscriptions, pubsub_tasks, tasks, async_client,
                   redis_calls, redis_disposed, handler_calls, redis_errors,
                   cache_commands>>
    /\ UNCHANGED <<pubsub_slots, redis_ready>>
    /\ UNCHANGED redisOthers

\* subscribe_async(channel, handler), lines 251-266, up to the await of
\* pubsub.subscribe: the handler is stored (line 262) and SUBSCRIBE is sent
subscribe_async(channel, handler) ==
    /\ RedisCall("subscribe", channel, handler)
    /\ IF ChannelRejected(channel) \/ handler = None
       THEN /\ redis_result' = "ValueError"
            /\ UNCHANGED <<subscriptions, async_client, redis_calls,
                           redis_pending>>
       ELSE /\ async_client' = TRUE
            /\ subscriptions' = DictSet(subscriptions, channel, handler)
            /\ redis_calls' = redis_calls + 1
            /\ redis_pending' = redis_pending \cup
                   {Suspended(redis_ops', "subscribe", channel, handler,
                              "reply", 0, Len(redis_ready))}
            /\ redis_result' = "pending"
    /\ UNCHANGED <<pubsub_tasks, tasks, redis_disposed, handler_calls,
                   redis_errors, cache_commands>>
    /\ UNCHANGED <<pubsub_slots, redis_ready>>
    /\ UNCHANGED redisOthers

\* lines 266-276: pubsub.subscribe returns: the task is created, its first
\* step is queued (line 269) and it is stored under the channel (line
\* 270), in a new slot of the dict when the channel is a new key; or
\* pubsub.subscribe raises: the handler stored under the channel is
\* removed (line 275) and subscribe_async raises
SubscribeReply(r, ok) ==
    /\ ReplyArrives(r, "reply")
    /\ RedisResume(r)
    /\ r.op = "subscribe"
    /\ IF ok
       THEN /\ tasks' = Append(tasks,
                   [channel |-> r.channel, handler |-> r.handler,
                    state |-> "created", exc |-> FALSE, cancel |-> FALSE,
                    behind |-> 0])
            /\ redis_ready' = Append(redis_ready, <<"task", Len(tasks) + 1>>)
            /\ pubsub_tasks' = DictSet(pubsub_tasks, r.channel, Len(tasks) + 1)
            /\ pubsub_slots' = IF r.channel \in DictKeys(pubsub_tasks)
                                THEN pubsub_slots ELSE pubsub_slots + 1
            /\ redis_result' = "returned"
            /\ UNCHANGED subscriptions
       ELSE /\ subscriptions' = DictPop(subscriptions, r.channel)
            /\ redis_result' = "RedisError"
            /\ UNCHANGED <<pubsub_tasks, tasks, pubsub_slots, redis_ready>>
    /\ redis_pending' = redis_pending \ {r}
    /\ UNCHANGED <<async_client, redis_calls, redis_disposed, handler_calls,
                   redis_errors, cache_commands>>
    /\ UNCHANGED redisOthers

\* unsubscribe_async(channel), lines 278-290, up to `await task`: the task
\* under the channel is removed from the table and asked to cancel, and
\* the call waits for its end. Without a task, and with a task that has
\* ended (awaiting it does not suspend), the call goes on to its end: an
\* exception the task ended with is raised (lines 297-300), otherwise the
\* handler is removed (line 295)
unsubscribe_async(channel) ==
    /\ RedisCall("unsubscribe", channel, None)
    /\ IF ChannelRejected(channel)
       THEN /\ redis_result' = "ValueError"
            /\ UNCHANGED <<subscriptions, pubsub_tasks, tasks, redis_pending,
                           redis_ready>>
       ELSE IF channel \notin DictKeys(pubsub_tasks)
       THEN /\ subscriptions' = DictPop(subscriptions, channel)
            /\ redis_result' = "returned"
            /\ UNCHANGED <<pubsub_tasks, tasks, redis_pending, redis_ready>>
       ELSE LET k == DictGet(pubsub_tasks, channel)
            IN /\ pubsub_tasks' = DictPop(pubsub_tasks, channel)
               /\ tasks' = [tasks EXCEPT ![k] = CancelTask(tasks[k])]
               /\ redis_ready' = CancelQueued(k)
               /\ IF tasks[k].state = "ended"
                  THEN /\ UNCHANGED redis_pending
                       /\ IF tasks[k].exc
                          THEN /\ redis_result' = "RedisError"
                               /\ UNCHANGED subscriptions
                          ELSE /\ redis_result' = "returned"
                               /\ subscriptions' =
                                      DictPop(subscriptions, channel)
                  ELSE /\ redis_pending' = redis_pending \cup
                              {Suspended(redis_ops', "unsubscribe", channel,
                                         None, "task", k, 0)}
                       /\ redis_result' = "pending"
                       /\ UNCHANGED subscriptions
    /\ UNCHANGED <<async_client, redis_calls, redis_disposed, handler_calls,
                   redis_errors, cache_commands>>
    /\ UNCHANGED pubsub_slots
    /\ UNCHANGED redisOthers

\* lines 290-300: the awaited task has ended and the call is woken. A
\* CancelledError is caught (lines 291-292) and the handler is removed
\* (line 295); another exception of the task leaves the handler and is
\* raised
UnsubscribeResume(r) ==
    /\ WokenUp(r)
    /\ RedisResume(r)
    /\ r.op = "unsubscribe"
    /\ redis_ready' = Tail(redis_ready)
    /\ redis_pending' = PendingRan(redis_pending \ {r})
    /\ tasks' = TasksRan(tasks)
    /\ IF tasks[r.task].exc
       THEN /\ redis_result' = "RedisError"
            /\ UNCHANGED subscriptions
       ELSE /\ redis_result' = "returned"
            /\ subscriptions' = DictPop(subscriptions, r.channel)
    /\ UNCHANGED <<pubsub_tasks, async_client, redis_calls, redis_disposed,
                   handler_calls, redis_errors, cache_commands>>
    /\ UNCHANGED pubsub_slots
    /\ UNCHANGED redisOthers

\* what a handler call does: it returns, it raises an Exception, or it
\* raises asyncio.CancelledError, a BaseException that is not an Exception
Returns == "returns"
HandlerOutcomes == {Returns, "Exception", "CancelledError"}

\* no try around the handler call: a raising handler takes the task out of
\* its loop
TaskEndsOnRaise(task, outcome) ==
    IF outcome # Returns THEN [task EXCEPT !.state = "closing"] ELSE task

\* lines 309-325: the handler call is inside a try whose `except Exception`
\* (line 319) records the error, and the `async for` of line 305 goes on;
\* a CancelledError is not caught there, it leaves the loop, is caught at
\* line 323, and the task enters finally
TaskAfterHandler(task, outcome) ==
    IF outcome = "CancelledError" THEN [task EXCEPT !.state = "closing"]
    ELSE task

\* _handle_subscription, lines 302-305: task k runs for the first time and
\* awaits the first message
TaskStart(k) ==
    /\ TaskStep(k)
    /\ tasks[k].state = "created"
    /\ ~tasks[k].cancel
    /\ redis_ready' = Tail(redis_ready)
    /\ redis_pending' = PendingRan(redis_pending)
    /\ tasks' = [TasksRan(tasks) EXCEPT ![k] =
                     [@ EXCEPT !.state = "listening",
                               !.behind = Len(Tail(redis_ready))]]
    /\ UNCHANGED <<subscriptions, pubsub_tasks, async_client, redis_calls,
                   redis_ops, redis_call, redis_result, redis_disposed,
                   handler_calls, redis_errors, cache_commands>>
    /\ UNCHANGED pubsub_slots
    /\ UNCHANGED redisOthers

\* the next step of task k after a task.cancel(): one CancelledError is
\* thrown into it. A task that has not run ends without running; a
\* listening task leaves its loop (lines 323-325), enters finally and
\* sends UNSUBSCRIBE (line 329); a task in finally is ended by the
\* CancelledError. A task that ends wakes the calls that await it
TaskCancelled(k) ==
    /\ TaskStep(k)
    /\ tasks[k].cancel
    /\ redis_pending' = PendingRan(redis_pending)
    /\ IF tasks[k].state = "listening"
       THEN /\ tasks' = [TasksRan(tasks) EXCEPT ![k] =
                            [@ EXCEPT !.state = "closing", !.cancel = FALSE,
                                      !.behind = Len(Tail(redis_ready))]]
            /\ redis_calls' = redis_calls + 1
            /\ redis_ready' = Tail(redis_ready)
       ELSE /\ tasks' = [TasksRan(tasks) EXCEPT ![k] =
                            [@ EXCEPT !.state = "ended", !.cancel = FALSE]]
            /\ redis_ready' = Tail(redis_ready) \o WakeUps(AwaitersOf(k))
            /\ UNCHANGED redis_calls
    /\ UNCHANGED <<subscriptions, pubsub_tasks, async_client, redis_ops,
                   redis_call, redis_result, redis_disposed, handler_calls,
                   redis_errors, cache_commands>>
    /\ UNCHANGED pubsub_slots
    /\ UNCHANGED redisOthers

\* _handle_subscription, lines 305-325: task k receives a message of its
\* channel from its own pubsub object and calls its handler. When the
\* handler returns or raises an Exception, which is logged (line 322), the
\* task awaits the next item of pubsub.listen(); when the handler raises
\* CancelledError the task enters finally and sends UNSUBSCRIBE (line 329).
\* The activity of lines 307-308 and 320-321 comes from an activity source
\* that is not defined in the repository and is taken not to raise
HandleMessage(k, outcome) ==
    /\ TaskReply(k, "listening")
    /\ WithinRedisOps
    /\ Len(handler_calls) < MaxMessages
    /\ handler_calls' = Append(handler_calls,
           [task |-> k, channel |-> tasks[k].channel,
            handler |-> tasks[k].handler, raised |-> outcome # Returns,
            outcome |-> outcome])
    /\ redis_errors' = IF outcome = "Exception" THEN redis_errors + 1
                       ELSE redis_errors
    /\ LET after == TaskAfterHandler(tasks[k], outcome)
       IN /\ tasks' = [tasks EXCEPT ![k] =
                           [after EXCEPT !.behind = Len(redis_ready)]]
          /\ redis_calls' = IF after.state = "closing" THEN redis_calls + 1
                            ELSE redis_calls
    /\ UNCHANGED <<subscriptions, pubsub_tasks, async_client, redis_ops,
                   redis_call, redis_result, redis_disposed, redis_pending,
                   cache_commands>>
    /\ UNCHANGED <<pubsub_slots, redis_ready>>
    /\ UNCHANGED redisOthers

\* lines 305-306: pubsub.listen() yields to task k an item whose type is
\* not 'message', such as the confirmation of its subscription: no handler
\* is called and the task awaits the next item
ListenOther(k) ==
    /\ TaskReply(k, "listening")
    /\ tasks' = [tasks EXCEPT ![k] = [@ EXCEPT !.behind = Len(redis_ready)]]
    /\ UNCHANGED <<subscriptions, pubsub_tasks, async_client, redis_calls,
                   redis_ops, redis_call, redis_result, redis_disposed,
                   handler_calls, redis_errors, redis_pending,
                   cache_commands>>
    /\ UNCHANGED <<pubsub_slots, redis_ready>>
    /\ UNCHANGED redisOthers

\* lines 305, 326-329: pubsub.listen() raises in task k (connection lost):
\* the error is logged, the task enters finally and awaits
\* pubsub.unsubscribe; its entry in self._pubsub_tasks stays
ListenRaises(k) ==
    /\ TaskReply(k, "listening")
    /\ tasks' = [tasks EXCEPT ![k] =
                     [@ EXCEPT !.state = "closing",
                               !.behind = Len(redis_ready)]]
    /\ redis_errors' = redis_errors + 1
    /\ redis_calls' = redis_calls + 1
    /\ UNCHANGED <<subscriptions, pubsub_tasks, async_client, redis_ops,
                   redis_call, redis_result, redis_disposed, handler_calls,
                   redis_pending, cache_commands>>
    /\ UNCHANGED <<pubsub_slots, redis_ready>>
    /\ UNCHANGED redisOthers

\* lines 329-330: pubsub.unsubscribe and pubsub.close return and task k
\* ends, or one of them raises and the task ends with that exception; the
\* calls that await the task are woken
TaskClosed(k, ok) ==
    /\ TaskReply(k, "closing")
    /\ tasks' = [tasks EXCEPT ![k] = [@ EXCEPT !.state = "ended",
                                               !.exc = ~ok]]
    /\ redis_ready' = redis_ready \o WakeUps(AwaitersOf(k))
    /\ UNCHANGED <<subscriptions, pubsub_tasks, async_client, redis_calls,
                   redis_ops, redis_call, redis_result, redis_disposed,
                   handler_calls, redis_errors, redis_pending,
                   cache_commands>>
    /\ UNCHANGED pubsub_slots
    /\ UNCHANGED redisOthers

\* dispose(), lines 333-346: the handlers are removed and the sync client
\* is closed; the tasks and self._pubsub_tasks are not touched
dispose ==
    /\ RedisCall("dispose", None, None)
    /\ redis_result' = "returned"
    /\ IF redis_disposed
       THEN UNCHANGED <<subscriptions, redis_disposed>>
       ELSE subscriptions' = {} /\ redis_disposed' = TRUE
    /\ UNCHANGED <<pubsub_tasks, tasks, async_client, redis_calls,
                   handler_calls, redis_errors, redis_pending,
                   cache_commands>>
    /\ UNCHANGED <<pubsub_slots, redis_ready>>
    /\ UNCHANGED redisOthers

\* dispose_async, lines 361-372, after the loop, for the call r, the other
\* suspended calls being others and behind the number of callbacks in the
\* ready queue: both tables are cleared, the call awaits the close of the
\* async client if there is one, then self._disposed is set
DisposeAfterLoop(r, others, behind) ==
    /\ pubsub_tasks' = {}
    /\ pubsub_slots' = 0
    /\ subscriptions' = {}
    /\ IF async_client
       THEN /\ redis_pending' = others \cup
                   {[r EXCEPT !.wait = "close", !.task = 0, !.pos = 0,
                              !.behind = behind]}
            /\ redis_result' = "pending"
            /\ UNCHANGED redis_disposed
       ELSE /\ redis_pending' = others
            /\ redis_result' = "returned"
            /\ redis_disposed' = TRUE

\* dispose_async(), lines 348-357, up to its first suspension. The loop
\* over self._pubsub_tasks.items() asks the task of the first entry to
\* cancel and awaits it; the table has at most one entry, "c1" being the
\* only channel name subscribe_async accepts here. Awaiting a task that
\* has ended does not suspend: its exception, if any, is raised
dispose_async ==
    /\ RedisCall("dispose_async", None, None)
    /\ LET r == Suspended(redis_ops', "dispose_async", None, None, "task",
                          0, 0)
       IN IF redis_disposed
          THEN /\ redis_result' = "returned"
               /\ UNCHANGED <<subscriptions, pubsub_tasks, tasks,
                              redis_disposed, redis_pending, pubsub_slots,
                              redis_ready>>
          ELSE IF pubsub_tasks = {}
          THEN /\ DisposeAfterLoop(r, redis_pending, Len(redis_ready))
               /\ UNCHANGED <<tasks, redis_ready>>
          ELSE LET k == (CHOOSE e \in pubsub_tasks : TRUE)[2]
               IN /\ tasks' = [tasks EXCEPT ![k] = CancelTask(tasks[k])]
                  /\ redis_ready' = CancelQueued(k)
                  /\ IF tasks[k].state # "ended"
                     THEN /\ redis_pending' = redis_pending \cup
                                 {[r EXCEPT !.task = k]}
                          /\ redis_result' = "pending"
                          /\ UNCHANGED <<subscriptions, pubsub_tasks,
                                         redis_disposed, pubsub_slots>>
                     ELSE IF tasks[k].exc
                     THEN /\ redis_result' = "RedisError"
                          /\ UNCHANGED <<subscriptions, pubsub_tasks,
                                         redis_disposed, redis_pending,
                                         pubsub_slots>>
                     ELSE DisposeAfterLoop(r, redis_pending,
                                           Len(redis_ready))
    /\ UNCHANGED <<async_client, redis_calls, handler_calls, redis_errors,
                   cache_commands>>
    /\ UNCHANGED redisOthers

\* lines 354-359: the awaited task has ended and the call is woken. An
\* exception other than CancelledError leaves dispose_async; otherwise the
\* loop asks the dict iterator for the next entry, which raises
\* RuntimeError or ends the loop
DisposeResume(r) ==
    /\ WokenUp(r)
    /\ RedisResume(r)
    /\ r.op = "dispose_async"
    /\ redis_ready' = Tail(redis_ready)
    /\ tasks' = TasksRan(tasks)
    /\ IF tasks[r.task].exc \/ IterRaises(r.pos)
       THEN /\ redis_result' = IF tasks[r.task].exc THEN "RedisError"
                               ELSE "RuntimeError"
            /\ redis_pending' = PendingRan(redis_pending \ {r})
            /\ UNCHANGED <<subscriptions, pubsub_tasks, redis_disposed,
                           pubsub_slots>>
       ELSE DisposeAfterLoop(r, PendingRan(redis_pending \ {r}),
                             Len(Tail(redis_ready)))
    /\ UNCHANGED <<async_client, redis_calls, handler_calls, redis_errors,
                   cache_commands>>
    /\ UNCHANGED redisOthers

\* lines 365-372: the close of the async client returns, the sync client
\* is closed and self._disposed is set; or the close raises, the call ends
\* with that error and self._disposed stays False, the tables being
\* cleared already
DisposeClosed(r, ok) ==
    /\ ReplyArrives(r, "close")
    /\ RedisResume(r)
    /\ r.op = "dispose_async"
    /\ redis_pending' = redis_pending \ {r}
    /\ IF ok
       THEN redis_disposed' = TRUE /\ redis_result' = "returned"
       ELSE UNCHANGED redis_disposed /\ redis_result' = "RedisError"
    /\ UNCHANGED <<subscriptions, pubsub_tasks, tasks, async_client,
                   redis_calls, handler_calls, redis_errors, cache_commands>>
    /\ UNCHANGED <<pubsub_slots, redis_ready>>
    /\ UNCHANGED redisOthers

NextRedis ==
    \/ key_exists
    \/ add_string_value
    \/ get_string_value
    \/ remove_key
    \/ \E has_life_span \in BOOLEAN, hset_ok \in BOOLEAN :
           add_hash_value(has_life_span, hset_ok)
    \/ get_hash_value
    \/ key_exists_async
    \/ add_string_value_async
    \/ get_string_value_async
    \/ remove_key_async
    \/ \E has_life_span \in BOOLEAN : add_hash_value_async(has_life_span)
    \/ \E r \in redis_pending, ok \in BOOLEAN : HashSetReply(r, ok)
    \/ get_hash_value_async
    \/ \E channel \in Channels : publish_async(channel)
    \/ \E r \in redis_pending, ok \in BOOLEAN : PublishReply(r, ok)
    \/ \E channel \in Channels, handler \in Handlers :
           subscribe_async(channel, handler)
    \/ \E r \in redis_pending, ok \in BOOLEAN : SubscribeReply(r, ok)
    \/ \E channel \in Channels : unsubscribe_async(channel)
    \/ \E r \in redis_pending : UnsubscribeResume(r)
    \/ \E k \in 1..MaxRedisOps : TaskStart(k)
    \/ \E k \in 1..MaxRedisOps : TaskCancelled(k)
    \/ \E k \in 1..MaxRedisOps, outcome \in HandlerOutcomes :
           HandleMessage(k, outcome)
    \/ \E k \in 1..MaxRedisOps : ListenOther(k)
    \/ \E k \in 1..MaxRedisOps : ListenRaises(k)
    \/ \E k \in 1..MaxRedisOps, ok \in BOOLEAN : TaskClosed(k, ok)
    \/ dispose
    \/ dispose_async
    \/ \E r \in redis_pending : DisposeResume(r)
    \/ \E r \in redis_pending, ok \in BOOLEAN : DisposeClosed(r, ok)

\* ------------------------------------------------------------------------
\* MongoHandler: operations (one thread per handler constructed; threads
\* may be switched between any two statements)
\* ------------------------------------------------------------------------
\* number of threads that construct a MongoHandler
MaxHandlers == 3

HandlerThreads == 1..MaxHandlers
\* line 94: _mongo_logger = None
NoLogger == 0

HandlerAbsent ==
    /\ mongo_logger = NoLogger
    /\ loggers = {}
    /\ handler_pc = [t \in HandlerThreads |-> "none"]
    /\ handler_logger = [t \in HandlerThreads |-> NoLogger]
    /\ handler_emits = {}

\* the class is loaded and every thread is about to call MongoHandler(...)
HandlerConstructed ==
    /\ mongo_logger = NoLogger
    /\ loggers = {}
    /\ handler_pc = [t \in HandlerThreads |-> "check"]
    /\ handler_logger = [t \in HandlerThreads |-> NoLogger]
    /\ handler_emits = {}

\* line 98: `if not MongoHandler._mongo_logger`
HandlerCheck(t) ==
    /\ handler_pc[t] = "check"
    /\ handler_pc' = [handler_pc EXCEPT ![t] =
           IF mongo_logger = NoLogger THEN "create" ELSE "read"]
    /\ UNCHANGED <<mongo_logger, loggers, handler_logger, handler_emits>>
    /\ UNCHANGED handlerOthers

\* line 99: MongoBatchLogger(batch_size, flush_interval_sec) is constructed,
\* which starts its worker thread, and stored in the class attribute
HandlerCreate(t) ==
    /\ handler_pc[t] = "create"
    /\ loggers' = loggers \cup {t}
    /\ mongo_logger' = t
    /\ handler_pc' = [handler_pc EXCEPT ![t] = "read"]
    /\ UNCHANGED <<handler_logger, handler_emits>>
    /\ UNCHANGED handlerOthers

\* line 100: self.mongo_logger = MongoHandler._mongo_logger
HandlerRead(t) ==
    /\ handler_pc[t] = "read"
    /\ handler_logger' = [handler_logger EXCEPT ![t] = mongo_logger]
    /\ handler_pc' = [handler_pc EXCEPT ![t] = "ready"]
    /\ UNCHANGED <<mongo_logger, loggers, handler_emits>>
    /\ UNCHANGED handlerOthers

\* MongoHandler.emit, lines 102-106: self.mongo_logger.enqueue(record)
HandlerEmit(t) ==
    /\ handler_pc[t] = "ready"
    /\ <<t, handler_logger[t]>> \notin handler_emits
    /\ handler_emits' = handler_emits \cup {<<t, handler_logger[t]>>}
    /\ UNCHANGED <<mongo_logger, loggers, handler_pc, handler_logger>>
    /\ UNCHANGED handlerOthers

NextHandler ==
    \/ \E t \in HandlerThreads : HandlerCheck(t)
    \/ \E t \in HandlerThreads : HandlerCreate(t)
    \/ \E t \in HandlerThreads : HandlerRead(t)
    \/ \E t \in HandlerThreads : HandlerEmit(t)

\* ------------------------------------------------------------------------
\* TenantService: operations (coroutines of one asyncio event loop; a
\* coroutine runs without interruption from one await to the next; what a
\* database read returns is fixed when the server runs it, the coroutine
\* that awaits it resumes later)
\* ------------------------------------------------------------------------
\* number of initialize() calls
MaxInitCalls == 2
\* number of get_tenant / get_tenant_by_domain calls
MaxGets == 1
\* number of changes of the stored tenant
MaxStoreChanges == 1

InitCallers == 1..MaxInitCalls
GetCalls == 1..MaxGets
NoHolder == 0
NoEntry == 0
ByUpdate == 0
\* the version of the tenant stored when the service is constructed
FirstVersion == 1

TenantAbsent ==
    /\ tenant_initialized = FALSE
    /\ init_lock = NoHolder
    /\ init_waiters = <<>>
    /\ init_pc = [c \in InitCallers |-> "none"]
    /\ loads = 0
    /\ subscribe_tasks = 0
    /\ subscribed = <<>>
    /\ tenant_store = FirstVersion
    /\ tenant_cache = NoEntry
    /\ load_pc = "idle"
    /\ load_by = ByUpdate
    /\ load_snapshot = NoEntry
    /\ updates_pending = 0
    /\ updates_handled = 0
    /\ gets_started = 0
    /\ get_pc = [g \in GetCalls |-> "unborn"]
    /\ get_read = [g \in GetCalls |-> NoEntry]

\* TenantService.__init__, lines 17-31: empty cache, not initialized
TenantConstructed ==
    /\ tenant_initialized = FALSE
    /\ init_lock = NoHolder
    /\ init_waiters = <<>>
    /\ init_pc = [c \in InitCallers |-> "idle"]
    /\ loads = 0
    /\ subscribe_tasks = 0
    /\ subscribed = <<>>
    /\ tenant_store = FirstVersion
    /\ tenant_cache = NoEntry
    /\ load_pc = "idle"
    /\ load_by = ByUpdate
    /\ load_snapshot = NoEntry
    /\ updates_pending = 0
    /\ updates_handled = 0
    /\ gets_started = 0
    /\ get_pc = [g \in GetCalls |-> "unborn"]
    /\ get_read = [g \in GetCalls |-> NoEntry]

\* a lock every caller finds free
InitLockAlwaysAvailable == TRUE

\* asyncio.Lock.acquire (line 35) returns at once when the lock is free and
\* nobody waits for it
InitLockAvailable == init_lock = NoHolder /\ init_waiters = <<>>

\* lines 36-39: caller c holds the lock; it returns when the service is
\* initialized and otherwise runs _load_tenants up to its first await:
\* line 84 makes the cursor, line 85 clears the cache
InitLocked(c) ==
    IF tenant_initialized
    THEN /\ init_pc' = [init_pc EXCEPT ![c] = "done"]
         /\ init_lock' = NoHolder
         /\ UNCHANGED <<loads, tenant_cache, load_pc, load_by>>
    ELSE /\ init_pc' = [init_pc EXCEPT ![c] = "load"]
         /\ init_lock' = c
         /\ loads' = loads + 1
         /\ tenant_cache' = NoEntry
         /\ load_pc' = "fetch"
         /\ load_by' = c

\* initialize(), lines 33-35, called by c, up to its first suspension
initialize(c) ==
    /\ init_pc[c] = "idle"
    /\ IF InitLockAvailable
       THEN InitLocked(c) /\ UNCHANGED init_waiters
       ELSE /\ init_waiters' = Append(init_waiters, c)
            /\ init_pc' = [init_pc EXCEPT ![c] = "wait"]
            /\ UNCHANGED <<init_lock, loads, tenant_cache, load_pc, load_by>>
    /\ UNCHANGED <<tenant_initialized, subscribe_tasks, subscribed, tenant_store,
                   load_snapshot, updates_pending, updates_handled,
                   gets_started, get_pc, get_read>>
    /\ UNCHANGED tenantOthers

\* the lock was released and the longest waiting caller gets it
InitLockGranted(c) ==
    /\ init_pc[c] = "wait"
    /\ init_lock = NoHolder
    /\ init_waiters # <<>>
    /\ Head(init_waiters) = c
    /\ init_waiters' = Tail(init_waiters)
    /\ InitLocked(c)
    /\ UNCHANGED <<tenant_initialized, subscribe_tasks, subscribed, tenant_store,
                   load_snapshot, updates_pending, updates_handled,
                   gets_started, get_pc, get_read>>
    /\ UNCHANGED tenantOthers

\* _load_tenants has ended, in initialize (lines 40-42: the subscription
\* task is created, the flag is set, the lock is released) or in
\* _handle_update (lines 120-122)
LoadEnds ==
    /\ load_pc' = "idle"
    /\ UNCHANGED subscribed
    /\ IF load_by = ByUpdate
       THEN /\ updates_handled' = updates_handled + 1
            /\ UNCHANGED <<tenant_initialized, init_lock, init_pc,
                           subscribe_tasks>>
       ELSE /\ subscribe_tasks' = subscribe_tasks + 1
            /\ tenant_initialized' = TRUE
            /\ init_lock' = NoHolder
            /\ init_pc' = [init_pc EXCEPT ![load_by] = "done"]
            /\ UNCHANGED updates_handled

\* lines 86, 90-91: the server runs the find of the cursor, or the find
\* fails and _load_tenants logs the exception and returns
LoadFetch(ok) ==
    /\ load_pc = "fetch"
    /\ IF ok
       THEN /\ load_snapshot' = tenant_store
            /\ load_pc' = "fill"
            /\ UNCHANGED <<tenant_initialized, init_lock, init_pc,
                           subscribe_tasks, subscribed, updates_handled>>
       ELSE LoadEnds /\ UNCHANGED load_snapshot
    /\ UNCHANGED <<init_waiters, loads, tenant_store, tenant_cache, load_by,
                   updates_pending, gets_started, get_pc, get_read>>
    /\ UNCHANGED tenantOthers

\* lines 86-89: the coroutine resumes with what the cursor has read and
\* stores it in the cache; _load_tenants returns
LoadFill ==
    /\ load_pc = "fill"
    /\ tenant_cache' = load_snapshot
    /\ LoadEnds
    /\ UNCHANGED <<init_waiters, loads, tenant_store, load_by, load_snapshot,
                   updates_pending, gets_started, get_pc, get_read>>
    /\ UNCHANGED tenantOthers

\* _subscribe_to_updates, lines 107-115, run by a task that initialize()
\* has created: subscribe_async registers _handle_update on the update
\* channel (line 109), or it raises and the exception is logged (lines
\* 114-115) and no handler is registered
SubscribeToUpdates(ok) ==
    /\ Len(subscribed) < subscribe_tasks
    /\ subscribed' = Append(subscribed, ok)
    /\ UNCHANGED <<tenant_initialized, init_lock, init_waiters, init_pc,
                   loads, subscribe_tasks, tenant_store, tenant_cache,
                   load_pc, load_by, load_snapshot, updates_pending,
                   updates_handled, gets_started, get_pc, get_read>>
    /\ UNCHANGED tenantOthers

\* _handle_update is registered on the update channel: a subscription
\* task has run and its subscribe_async has returned
HandlerRegistered == \E i \in 1..Len(subscribed) : subscribed[i]

\* the stored tenant is changed and the change is published on the update
\* channel; the notification reaches the service only when its handler is
\* registered by then, a notification published earlier or after a failed
\* subscribe_async is lost
StoreChange ==
    /\ init_pc[1] # "none"
    /\ tenant_store < FirstVersion + MaxStoreChanges
    /\ tenant_store' = tenant_store + 1
    /\ updates_pending' = IF HandlerRegistered THEN updates_pending + 1
                          ELSE updates_pending
    /\ UNCHANGED <<tenant_initialized, init_lock, init_waiters, init_pc,
                   loads, subscribe_tasks, subscribed, tenant_cache, load_pc,
                   load_by, load_snapshot, updates_handled, gets_started,
                   get_pc, get_read>>
    /\ UNCHANGED tenantOthers

\* _handle_update, lines 117-120, for one notification: _load_tenants up
\* to its first await
HandleUpdate ==
    /\ updates_pending > 0
    /\ load_pc = "idle"
    /\ updates_pending' = updates_pending - 1
    /\ tenant_cache' = NoEntry
    /\ load_pc' = "fetch"
    /\ load_by' = ByUpdate
    /\ UNCHANGED <<tenant_initialized, init_lock, init_waiters, init_pc,
                   loads, subscribe_tasks, subscribed, tenant_store, load_snapshot,
                   updates_handled, gets_started, get_pc, get_read>>
    /\ UNCHANGED tenantOthers

\* lines 53-54 and 68-70: the tenant read is stored in the cache, whatever
\* the cache holds by then
GetStores(cached, read) == read

\* get_tenant(tenant_id), lines 44-52: a cached tenant is returned, else
\* the call awaits _load_tenant_from_db
get_tenant ==
    /\ init_pc[1] # "none"
    /\ gets_started < MaxGets
    /\ gets_started' = gets_started + 1
    /\ get_pc' = [get_pc EXCEPT ![gets_started + 1] =
           IF tenant_cache # NoEntry THEN "done" ELSE "find"]
    /\ UNCHANGED <<tenant_initialized, init_lock, init_waiters, init_pc,
                   loads, subscribe_tasks, subscribed, tenant_store, tenant_cache,
                   load_pc, load_by, load_snapshot, updates_pending,
                   updates_handled, get_read>>
    /\ UNCHANGED tenantOthers

\* get_tenant_by_domain(domain), lines 57-67: the call awaits find_one
get_tenant_by_domain ==
    /\ init_pc[1] # "none"
    /\ gets_started < MaxGets
    /\ gets_started' = gets_started + 1
    /\ get_pc' = [get_pc EXCEPT ![gets_started + 1] = "find"]
    /\ UNCHANGED <<tenant_initialized, init_lock, init_waiters, init_pc,
                   loads, subscribe_tasks, subscribed, tenant_store, tenant_cache,
                   load_pc, load_by, load_snapshot, updates_pending,
                   updates_handled, get_read>>
    /\ UNCHANGED tenantOthers

\* lines 61, 95: the server runs the find_one of call g and finds the
\* tenant. Otherwise find_one raises (lines 72-73, 103-104: logged) or
\* returns None (lines 68, 101 false): the call returns None (lines 74,
\* 105 and 53-55) and the cache stays as it is
GetFind(g, found) ==
    /\ get_pc[g] = "find"
    /\ get_read' = [get_read EXCEPT ![g] =
           IF found THEN tenant_store ELSE NoEntry]
    /\ get_pc' = [get_pc EXCEPT ![g] = IF found THEN "store" ELSE "done"]
    /\ UNCHANGED <<tenant_initialized, init_lock, init_waiters, init_pc,
                   loads, subscribe_tasks, subscribed, tenant_store, tenant_cache,
                   load_pc, load_by, load_snapshot, updates_pending,
                   updates_handled, gets_started>>
    /\ UNCHANGED tenantOthers

\* lines 53-55, 68-71: call g resumes with the tenant read, stores it in
\* the cache and returns it
GetResume(g) ==
    /\ get_pc[g] = "store"
    /\ tenant_cache' = GetStores(tenant_cache, get_read[g])
    /\ get_pc' = [get_pc EXCEPT ![g] = "done"]
    /\ UNCHANGED <<tenant_initialized, init_lock, init_waiters, init_pc,
                   loads, subscribe_tasks, subscribed, tenant_store, load_pc, load_by,
                   load_snapshot, updates_pending, updates_handled,
                   gets_started, get_read>>
    /\ UNCHANGED tenantOthers

NextTenant ==
    \/ \E c \in InitCallers : initialize(c)
    \/ \E c \in InitCallers : InitLockGranted(c)
    \/ \E ok \in BOOLEAN : LoadFetch(ok)
    \/ LoadFill
    \/ \E ok \in BOOLEAN : SubscribeToUpdates(ok)
    \/ StoreChange
    \/ HandleUpdate
    \/ get_tenant
    \/ get_tenant_by_domain
    \/ \E g \in GetCalls, found \in BOOLEAN : GetFind(g, found)
    \/ \E g \in GetCalls : GetResume(g)

\* ------------------------------------------------------------------------
\* AzureMessageClient: operations (coroutines of one asyncio event loop;
\* acquiring an asyncio.Lock that is free does not suspend, so _get_sender
\* runs from its call to its return without interruption)
\* ------------------------------------------------------------------------
\* number of concurrent _send_to_azure_bus_async calls
MaxGetters == 3

Getters == 1..MaxGetters
\* the queue declared in the configuration
DeclaredNames == {"q1"}
\* the destination names callers ask for
DestinationNames == {"q1", "t1", "t2"}
NoSender == <<"", 0>>

\* the n-th sender object made for a name (0: made by _initialize_senders)
SenderObject(name, n) == <<name, n>>

AzureAbsent ==
    /\ azure_senders = {}
    /\ topic_sender_calls = [name \in DestinationNames |-> 0]
    /\ getter_pc = [c \in Getters |-> "none"]
    /\ getter_name = [c \in Getters |-> ""]
    /\ getter_sender = [c \in Getters |-> NoSender]

\* __init__ and _initialize_senders, lines 21-33: a sender for every
\* declared queue and topic
AzureConstructed ==
    /\ azure_senders = {<<name, SenderObject(name, 0)>> : name \in DeclaredNames}
    /\ topic_sender_calls = [name \in DestinationNames |-> 0]
    /\ getter_pc = [c \in Getters |-> "idle"]
    /\ getter_name = [c \in Getters |-> ""]
    /\ getter_sender = [c \in Getters |-> NoSender]

\* a test that never finds the sender
SenderAlwaysMissing(table, name) == TRUE

\* lines 36 and 40: `name not in self._senders`
SenderMissing(table, name) == name \notin DictKeys(table)

\* _get_sender(name), lines 35-43, called by c from line 55; then the
\* caller awaits sender.send_messages (line 73)
_get_sender(c, name) ==
    /\ getter_pc[c] = "idle"
    /\ IF SenderMissing(azure_senders, name)
       THEN /\ topic_sender_calls' = [topic_sender_calls EXCEPT
                   ![name] = topic_sender_calls[name] + 1]
            /\ azure_senders' = DictSet(azure_senders, name,
                   SenderObject(name, topic_sender_calls'[name]))
       ELSE UNCHANGED <<azure_senders, topic_sender_calls>>
    /\ getter_sender' = [getter_sender EXCEPT
           ![c] = DictGet(azure_senders', name)]
    /\ getter_name' = [getter_name EXCEPT ![c] = name]
    /\ getter_pc' = [getter_pc EXCEPT ![c] = "send"]
    /\ UNCHANGED azureOthers

\* line 73: sender.send_messages returns or raises; the call is over
SendMessagesReturn(c) ==
    /\ getter_pc[c] = "send"
    /\ getter_pc' = [getter_pc EXCEPT ![c] = "done"]
    /\ UNCHANGED <<azure_senders, topic_sender_calls, getter_name,
                   getter_sender>>
    /\ UNCHANGED azureOthers

NextAzure ==
    \/ \E c \in Getters, name \in DestinationNames : _get_sender(c, name)
    \/ \E c \in Getters : SendMessagesReturn(c)

vars == <<logVars, traceVars, sinkVars, senderVars, redisVars, handlerVars,
          tenantVars, azureVars>>

InitLog ==
    LogConstructed /\ TraceAbsent /\ SinkAbsent /\ SenderAbsent
    /\ RedisAbsent /\ HandlerAbsent /\ TenantAbsent /\ AzureAbsent

InitTrace ==
    LogAbsent /\ TraceConstructed /\ SinkAbsent /\ SenderAbsent
    /\ RedisAbsent /\ HandlerAbsent /\ TenantAbsent /\ AzureAbsent

InitSink ==
    LogAbsent /\ TraceAbsent /\ SinkConstructed /\ SenderAbsent
    /\ RedisAbsent /\ HandlerAbsent /\ TenantAbsent /\ AzureAbsent

InitSender ==
    LogAbsent /\ TraceAbsent /\ SinkAbsent /\ SenderConstructed
    /\ RedisAbsent /\ HandlerAbsent /\ TenantAbsent /\ AzureAbsent

InitRedis ==
    LogAbsent /\ TraceAbsent /\ SinkAbsent /\ SenderAbsent
    /\ RedisConstructed /\ HandlerAbsent /\ TenantAbsent /\ AzureAbsent

InitHandler ==
    LogAbsent /\ TraceAbsent /\ SinkAbsent /\ SenderAbsent
    /\ RedisAbsent /\ HandlerConstructed /\ TenantAbsent /\ AzureAbsent

InitTenant ==
    LogAbsent /\ TraceAbsent /\ SinkAbsent /\ SenderAbsent
    /\ RedisAbsent /\ HandlerAbsent /\ TenantConstructed /\ AzureAbsent

InitAzure ==
    LogAbsent /\ TraceAbsent /\ SinkAbsent /\ SenderAbsent
    /\ RedisAbsent /\ HandlerAbsent /\ TenantAbsent /\ AzureConstructed

\* one instance of any of the kinds
Init == InitLog \/ InitTrace \/ InitSink \/ InitSender \/ InitRedis \/
        InitHandler \/ InitTenant \/ InitAzure

Next == NextLog \/ NextTrace \/ NextSink \/ NextSender \/ NextRedis \/
        NextHandler \/ NextTenant \/ NextAzure

SpecLog == InitLog /\ [][NextLog]_vars

SpecTrace == InitTrace /\ [][NextTrace]_vars

SpecSink == InitSink /\ [][NextSink]_vars

SpecSender == InitSender /\ [][NextSender]_vars

SpecRedis == InitRedis /\ [][NextRedis]_vars

SpecHandler == InitHandler /\ [][NextHandler]_vars

SpecTenant == InitTenant /\ [][NextTenant]_vars

SpecAzure == InitAzure /\ [][NextAzure]_vars

\* the retry timer keeps firing, a pass goes on, and a transmission the sink
\* accepts completes
LiveSender ==
    /\ SpecSender
    /\ WF_vars(TimerFire)
    /\ WF_vars(TimerTake)
    /\ \A c \in Callers : WF_vars(Transmit(c, TRUE))

Spec == Init /\ [][Next]_vars

\* one instance of a class of the package blocks_genesis/lmt: a batcher, an
\* exporter, a sink or a sender
InitLmt == InitLog \/ InitTrace \/ InitSink \/ InitSender

NextLmt == NextLog \/ NextTrace \/ NextSink \/ NextSender

SpecLmt == InitLmt /\ [][NextLmt]_vars

\* ------------------------------------------------------------------------
\* Properties
\* ------------------------------------------------------------------------
\* the documents handed to collection.insert_many so far, in order
WrittenDocs == Flatten([i \in 1..Len(collection_writes) |->
                           collection_writes[i].docs])

\* the last n elements of s
LastN(s, n) == IF Len(s) <= n THEN s ELSE SubSeq(s, Len(s) - n + 1, Len(s))

\* C1: time trigger of the log batcher. When the worker's queue.get has
\* timed out (flush_interval elapsed without a new record) with a non-empty
\* batch smaller than batch_size and no stop was requested, the batch has
\* been flushed by the time the loop is back at its head: every record
\* removed from the queue is in a write, in enqueue order.
C1_TimeTriggerFlushes ==
    (worker_pc = "while" /\ timed_out /\ ~log_stop_event)
        => (batch = <<>> /\ WrittenDocs = dequeued)

\* C2: size trigger of the log batcher. The in-progress batch never holds
\* more than batch_size records and the worker never goes back to the queue
\* with a full batch (the flush comes as soon as batch_size is reached); a
\* write never carries more than batch_size records; the records removed
\* from the queue are exactly the flushed ones followed by the in-progress
\* batch, so none is in two batches and none is skipped.
C2_SizeTrigger ==
    /\ Len(batch) <= batch_size
    /\ (worker_pc \in {"while", "get"} => Len(batch) < batch_size)
    /\ \A i \in 1..Len(collection_writes) :
           Len(collection_writes[i].docs) \in 1..batch_size
    /\ WrittenDocs \o (IF worker_pc = "done" THEN <<>> ELSE batch) = dequeued

\* a size-triggered flush happened and the next record began a new batch
C2_Witness ==
    /\ ~log_stop_event
    /\ collection_writes # <<>>
    /\ Len(collection_writes[1].docs) = batch_size
    /\ batch # <<>>

\* C3: shutdown drain. Once stop() (shutdown()) has returned, every record
\* whose enqueue (export) returned before the call is in some batch handed
\* to the sink.
C3_DrainLosesNothing ==
    /\ stop_returns >= 1 =>
           \A n \in 1..pre_stop :
               \E i \in 1..Len(WrittenDocs) : WrittenDocs[i].Timestamp = n
    /\ shutdown_returns >= 1 =>
           \A n \in 1..trace_pre_stop :
               \E i \in 1..Len(db_writes) :
                   \E j \in 1..Len(db_writes[i].docs) :
                       db_writes[i].docs[j].SpanId = n

\* C4: on stop the partially filled batch is flushed exactly once. When the
\* worker has ended, every record it removed from the queue was handed to
\* insert_many exactly once, so the flush inside the loop and the flush
\* after the loop never carry the same record and no record is left
\* unflushed, whatever the outcome of the writes.
C4_StopFlushOnce ==
    worker_pc = "done" =>
        \A i \in 1..Len(dequeued) : Occurrences(WrittenDocs, dequeued[i]) = 1

\* the worker ended after a failed flush of a partial batch inside the loop
C4_Witness ==
    /\ worker_pc = "done"
    /\ \E i \in 1..Len(collection_writes) :
           /\ collection_writes[i].line = 75
           /\ ~collection_writes[i].ok
           /\ Len(collection_writes[i].docs) < batch_size

\* C5: stop is idempotent. A step of a stop() (shutdown()) call made after
\* an earlier call returned changes nothing of the instance: event, queue,
\* batch, worker position, sink writes and client stay as they are; and the
\* join of a repeated stop() finds the worker ended, so that it returns.
C5_StopIdempotent ==
    [][ /\ (stop_returns >= 1 /\ stop_pc' # stop_pc) =>
               /\ UNCHANGED <<queue, log_stop_event, batch, worker_pc,
                              collection_writes, dequeued>>
               /\ worker_pc = "done"
        /\ (shutdown_returns >= 1 /\ shutdown_pc' # shutdown_pc) =>
               UNCHANGED <<trace_queue, trace_stop_event, batch_by_tenant,
                           flushing, trace_pc, db_writes, client_closed>>
      ]_vars

\* stop() was called twice on a batcher that had written to the sink
C5_Witness == stop_returns = 2 /\ collection_writes # <<>>

\* C6: retry until success. A send gives up only after max_retries failed
\* transmissions; a send that met k < max_retries failures and then a
\* success made exactly k + 1 transmissions, its batch is delivered and no
\* FailedBatch holds it.
C6_RetryUntilSuccess ==
    \A c \in Callers :
        /\ sender[c].pc \in {"quarantined", "discarded", "evicted"} =>
               sender[c].fails >= max_retries
        /\ sender[c].pc = "delivered" =>
               /\ sender[c].fails < max_retries
               /\ sender[c].calls = sender[c].fails + 1
               /\ sender[c].logs \in Range(delivered)
               /\ \A i \in 1..Len(failed_log_batches) :
                      failed_log_batches[i].Logs # sender[c].logs

\* a flush was delivered on its last permitted attempt
C6_Witness ==
    /\ sender["flush"].pc = "delivered"
    /\ sender["flush"].fails = max_retries - 1
    /\ sender["flush"].fails >= 1

\* C7: retry exhaustion. The step that ends a send called with retry_count
\* 0 in the quarantine is its max_retries-th transmission, all of them
\* failed; it puts one FailedBatch with the records of the batch and
\* RetryCount 1 at the end of the quarantine, which grows by at most that
\* entry, and the batch is not delivered by it.
C7_RetryExhaustion ==
    [][ \A c \in Callers :
          (/\ sender[c].pc = "sending"
           /\ sender[c].retry_count = 0
           /\ sender'[c].pc \notin {"sending", "delivered"}) =>
              /\ sender'[c].pc = "quarantined"
              /\ sender'[c].calls = max_retries
              /\ sender'[c].fails = max_retries
              /\ delivered' = delivered
              /\ failed_log_batches' # <<>>
              /\ LET last == failed_log_batches'[Len(failed_log_batches')]
                 IN /\ last.Logs = sender[c].logs
                    /\ last.RetryCount = 1
              /\ Len(failed_log_batches') <= Len(failed_log_batches) + 1
              /\ Cardinality({i \in 1..Len(failed_log_batches') :
                     failed_log_batches'[i].Logs = sender[c].logs}) = 1
      ]_vars

\* a flush used up its attempts and its batch is quarantined
C7_Witness ==
    /\ sender["flush"].pc = "quarantined"
    /\ sender["flush"].calls = max_retries
    /\ failed_log_batches # <<>>
    /\ failed_log_batches[Len(failed_log_batches)].Logs = sender["flush"].logs

\* the numbers of the sealed batches whose send has ended without delivery,
\* in the order they were sealed
FailedFlushes ==
    SelectSeq([k \in 1..sealed |-> k],
              LAMBDA k : /\ BatchLogs(k) \notin Range(delivered)
                         /\ ~(sender["flush"].pc = "sending"
                              /\ sender["flush"].logs = BatchLogs(k)))

\* the quarantine as flush cycles alone leave it: the most recent
\* max_failed_batches failed batches, oldest first, each with RetryCount 1
MostRecentFailed ==
    LET recent == LastN(FailedFlushes, max_failed_batches)
    IN [i \in 1..Len(recent) |->
           [Logs |-> BatchLogs(recent[i]), RetryCount |-> 1]]

DocsOfTenant(items, t) ==
    LET own == SelectSeq(items, LAMBDA it : it[1] = t)
    IN [i \in 1..Len(own) |-> own[i][2]]

\* the writes made by the n-th flush
WritesOfFlush(n) == SelectSeq(db_writes, LAMBDA w : w.flush = n)

\* C9: tenant bucketing. Every write of a flush carries exactly the spans
\* of its tenant that were removed from the queue for that flush, in queue
\* order, and only spans of that tenant; a flush writes each tenant once,
\* and when it is over it has written exactly the tenants that had a span.
C9_TenantBucketing ==
    \A n \in 1..Len(flush_inputs) :
        LET ws == WritesOfFlush(n)
            written == {ws[i].coll : i \in 1..Len(ws)}
            pending == IF n = Len(flush_inputs) /\ trace_pc = "flush"
                       THEN {flushing[i].tenant : i \in 1..Len(flushing)}
                       ELSE {}
        IN /\ \A i \in 1..Len(ws) :
                  /\ ws[i].docs = DocsOfTenant(flush_inputs[n], ws[i].coll)
                  /\ ws[i].docs # <<>>
                  /\ \A j \in 1..Len(ws[i].docs) :
                         ws[i].docs[j].TenantId = ws[i].coll
           /\ Cardinality(written) = Len(ws)
           /\ written \cap pending = {}
           /\ written \cup pending =
                  {flush_inputs[n][i][1] : i \in 1..Len(flush_inputs[n])}

\* a finished flush of three spans enqueued interleaved, tenant "a", then
\* the tenant of a span without TenantId, then "a" again: two writes, the
\* one of "a" with its two documents in enqueue order, the other with one
C9_Witness ==
    /\ trace_pc = "outer"
    /\ Len(flush_inputs) = 1
    /\ Len(flush_inputs[1]) = 3
    /\ flush_inputs[1][1][1] = "a"
    /\ flush_inputs[1][2][1] = SpanTenant(NoAttr)
    /\ flush_inputs[1][3][1] = "a"
    /\ Len(db_writes) = 2
    /\ \E i, j \in 1..Len(db_writes) :
           /\ db_writes[i].coll = "a"
           /\ db_writes[i].docs =
                  <<flush_inputs[1][1][2], flush_inputs[1][3][2]>>
           /\ db_writes[j].coll = SpanTenant(NoAttr)
           /\ db_writes[j].docs = <<flush_inputs[1][2][2]>>

\* C10: enqueue never blocks. A running MongoBatchLogger can always take an
\* enqueue call, and an emit call on the MongoDBDynamicSink is never
\* suspended, neither waiting for the lock nor waiting for the sink.
C10_EnqueueNeverBlocks ==
    /\ (worker_pc # "none" /\ enqueued < MaxRecords) =>
           ENABLED (\E record \in LogRecords, span \in CurrentSpans :
                        enqueue(record, span))
    /\ \A p \in 1..MaxEmits : sink_pc[p] \in {"unborn", "done"}

\* the documents enqueue has put on the queue so far, in enqueue order
EnqueuedDocs == dequeued \o queue

\* C11: round-trip of a log record. Every document handed to the sink has
\* the level and the message of the record it was built from, the tenant
\* the record carried, and a non-empty service name.
C11_RoundTrip ==
    \A i \in 1..Len(WrittenDocs) :
        LET doc == WrittenDocs[i]
            record == enqueue_args[doc.Timestamp].record
        IN /\ doc.Level = record.levelname
           /\ doc.Message = record.msg
           /\ record.TenantId # NoAttr => doc.TenantId = record.TenantId
           /\ "ServiceName" \in DOMAIN doc
           /\ doc.ServiceName # ""

\* C12: export never raises. Every export call ends by returning SUCCESS or
\* FAILURE.
C12_ExportNeverRaises ==
    export_result \in {"none", "SUCCESS", "FAILURE"}

\* C13: tenant attribution at enqueue. Every document put on the queue has
\* a non-empty tenant, and it is the tenant of the record when the record
\* has one.
C13_TenantAttribution ==
    \A i \in 1..Len(EnqueuedDocs) :
        LET doc == EnqueuedDocs[i]
            record == enqueue_args[doc.Timestamp].record
        IN /\ doc.TenantId # ""
           /\ record.TenantId # NoAttr => doc.TenantId = record.TenantId

\* C14: trace-context backfill at enqueue. A document built from a record
\* that carries a trace id and a span id has exactly those ids; the ids of
\* the current trace context are used only when the record lacks them.
C14_TraceContextBackfill ==
    \A i \in 1..Len(EnqueuedDocs) :
        LET doc == EnqueuedDocs[i]
            record == enqueue_args[doc.Timestamp].record
            context == get_trace_context(enqueue_args[doc.Timestamp].span)
        IN IF record.TraceId # NoAttr /\ record.SpanId # NoAttr
           THEN doc.TraceId = record.TraceId /\ doc.SpanId = record.SpanId
           ELSE doc.TraceId = context.trace_id /\ doc.SpanId = context.span_id

\* C15: time trigger of the trace exporter under continuous arrivals. While
\* the worker accumulates, the spans of the in-progress batch have never
\* waited longer than flush_interval for their flush, also when further
\* spans arrive before a queue.get times out.
C15_TimeTriggerContinuous ==
    batch_by_tenant # <<>> => batch_age <= flush_interval

\* the number of span documents in the dict d, summed over its tenants
SpanCount(d) == Len(Flatten([i \in 1..Len(d) |-> d[i].docs]))

\* C16: size trigger of the trace exporter. The worker never goes back to
\* the queue with batch_size or more accumulated spans, counted over all
\* tenants: reaching batch_size spans starts the flush.
C16_SizeTriggerCountsSpans ==
    trace_pc = "get" => SpanCount(batch_by_tenant) < trace_batch_size

\* the documents of the writes i..j of the log batcher, in order
DocsOfWrites(i, j) ==
    Flatten([k \in 1..(j - i + 1) |-> collection_writes[i + k - 1].docs])

\* C17: a batch whose write failed is not discarded. The documents of a
\* failed insert_many are handed to a later insert_many, or the worker
\* still holds them for a later attempt: in the batch of the log batcher,
\* under their tenant in the dict of the trace exporter.
C17_FailedBatchKept ==
    /\ \A i \in 1..Len(collection_writes) :
           ~collection_writes[i].ok =>
               \/ \E j \in (i + 1)..Len(collection_writes) :
                      collection_writes[j].docs = collection_writes[i].docs
               \/ /\ worker_pc # "done"
                  /\ Len(batch) >= Len(collection_writes[i].docs)
                  /\ SubSeq(batch, 1, Len(collection_writes[i].docs)) =
                         collection_writes[i].docs
    /\ \A i \in 1..Len(db_writes) :
           ~db_writes[i].ok =>
               \/ \E j \in (i + 1)..Len(db_writes) :
                      /\ db_writes[j].coll = db_writes[i].coll
                      /\ db_writes[j].docs = db_writes[i].docs
               \/ /\ trace_pc # "done"
                  /\ \E k \in 1..Len(batch_by_tenant) :
                         /\ batch_by_tenant[k].tenant = db_writes[i].coll
                         /\ Len(batch_by_tenant[k].docs) >=
                                Len(db_writes[i].docs)
                         /\ SubSeq(batch_by_tenant[k].docs, 1,
                                   Len(db_writes[i].docs)) = db_writes[i].docs

\* C18: the workers survive sink outages. Whatever the outcome of the
\* writes: a worker ends only after the stop signal; a worker that has not
\* ended always has a next step; the lock of the sink is held only by a
\* task whose insert_many is in progress, so a failed flush releases it;
\* the records the log batcher took after a failed write are exactly those
\* of its later writes and of its batch, and the size trigger still fires.
C18_WorkerSurvivesOutage ==
    /\ worker_pc = "done" => log_stop_event
    /\ trace_pc = "done" => trace_stop_event
    /\ worker_pc \notin {"none", "done"} =>
           ENABLED (\/ WorkerWhile \/ WorkerGet \/ WorkerEmpty \/ WorkerCheck
                    \/ WorkerAfter
                    \/ \E ok \in BOOLEAN : WorkerInsert(ok)
                    \/ \E ok \in BOOLEAN : WorkerInsertFinal(ok))
    /\ trace_pc \notin {"none", "done"} =>
           ENABLED (\/ RunOuter \/ RunGet \/ GetWaits \/ RunEmpty
                    \/ \E ok \in BOOLEAN : FlushInsert(ok))
    /\ sink_lock # Free => sink_pc[sink_lock] = "insert"
    /\ \A p \in SinkTasks : sink_pc[p] = "insert" => sink_lock = p
    /\ \A i \in 1..Len(collection_writes) :
           ~collection_writes[i].ok =>
               /\ SubSeq(dequeued, Len(DocsOfWrites(1, i)) + 1, Len(dequeued))
                      = DocsOfWrites(i + 1, Len(collection_writes))
                            \o (IF worker_pc = "done" THEN <<>> ELSE batch)
               /\ worker_pc \in {"while", "get"} => Len(batch) < batch_size

\* after a failed size-triggered write the log batcher took a later record
\* and wrote it
C18_Witness ==
    /\ Len(collection_writes) >= 2
    /\ ~collection_writes[1].ok
    /\ Len(collection_writes[1].docs) = batch_size
    /\ collection_writes[2].ok
    /\ collection_writes[2].docs # collection_writes[1].docs

\* C19: accumulation and delivery are pipelined. While an insert_many of
\* the log batcher is in progress, a record waiting in the queue can be
\* taken into a new batch.
C19_Pipelined ==
    (worker_pc = "insert" /\ queue # <<>>) => ENABLED WorkerGet

\* C20: shutdown always terminates. When a stop() or shutdown() call has
\* returned, the worker has observed the stop signal and has ended.
C20_ShutdownTerminates ==
    /\ stop_returns >= 1 => worker_pc = "done"
    /\ shutdown_returns >= 1 => trace_pc = "done"

\* C21: single-shot lifecycle. Once a stop() call has returned the worker
\* has ended and stays ended: no step takes a record from the queue or
\* writes to the sink any more, so a record enqueued afterwards stays in
\* the queue.
C21_SingleShot ==
    [][ stop_returns >= 1 =>
            /\ worker_pc = "done"
            /\ worker_pc' = "done"
            /\ UNCHANGED <<collection_writes, dequeued, batch>>
            /\ Len(queue') >= Len(queue)
      ]_vars

\* a record was enqueued on a stopped batcher and is still in the queue
C21_Witness ==
    /\ stop_returns >= 1
    /\ worker_pc = "done"
    /\ enqueued > pre_stop
    /\ queue # <<>>
    /\ queue[Len(queue)].Timestamp = enqueued

\* C22: delivery order. The documents reach the sink in enqueue order:
\* over all writes in the order they were made, and inside every write,
\* an earlier enqueued document never comes after a later one.
C22_DeliveryOrder ==
    /\ \A i, j \in 1..Len(WrittenDocs) :
           i < j => WrittenDocs[i].Timestamp < WrittenDocs[j].Timestamp
    /\ \A i, j \in 1..Len(dequeued) :
           i < j => dequeued[i].Timestamp < dequeued[j].Timestamp

\* two batches were written, the second with a record that waited in the
\* queue behind another one
C22_Witness ==
    /\ Len(collection_writes) >= 2
    /\ Len(WrittenDocs) >= 3

\* the items the trace worker removed from its queue, in removal order
TraceDequeued == Flatten(flush_inputs) \o flush_input

\* the documents handed to the insert_many calls of the trace exporter
TraceWrittenDocs == Flatten([i \in 1..Len(db_writes) |-> db_writes[i].docs])

\* C23: unique ownership transfer. Every record is removed from its queue
\* at most once (it is not removed twice and a removed record is not in
\* the queue any more) and is in at most one batch handed to the sink.
C23_UniqueOwnership ==
    /\ \A i \in 1..Len(dequeued) :
           /\ Occurrences(dequeued, dequeued[i]) = 1
           /\ Occurrences(queue, dequeued[i]) = 0
           /\ Occurrences(WrittenDocs, dequeued[i]) <= 1
    /\ \A i \in 1..Len(TraceDequeued) :
           /\ Occurrences(TraceDequeued, TraceDequeued[i]) = 1
           /\ Occurrences(trace_queue, TraceDequeued[i]) = 0
           /\ Occurrences(TraceWrittenDocs, TraceDequeued[i][2]) <= 1

\* the trace worker took a span and wrote it while the next span is on the
\* queue
C23_Witness ==
    /\ Len(TraceDequeued) >= 1
    /\ Len(TraceWrittenDocs) >= 1
    /\ trace_queue # <<>>

\* C24: no empty flush. No insert_many of the log batcher, of the trace
\* exporter or of the dynamic sink is called with an empty list.
C24_NoEmptyFlush ==
    /\ \A i \in 1..Len(collection_writes) : collection_writes[i].docs # <<>>
    /\ \A i \in 1..Len(db_writes) : db_writes[i].docs # <<>>
    /\ \A i \in 1..Len(sink_writes) : sink_writes[i].docs # <<>>

\* the queue.get of the log batcher timed out with nothing accumulated and
\* the worker ended without any write
C24_Witness ==
    /\ timed_out
    /\ dequeued = <<>>
    /\ worker_pc = "done"
    /\ collection_writes = <<>>

\* the Logs of the entries of the quarantine
QuarantinedLogs ==
    {failed_log_batches[i].Logs : i \in 1..Len(failed_log_batches)}

\* C25: quarantine retry counter. Every entry of the quarantine has a
\* RetryCount between 1 and the retry ceiling, and no step lowers the
\* RetryCount of an entry. A re-attempt by the timer that fails leaves the
\* entry of the batch with a RetryCount greater than the one it was taken
\* with and changes no other entry, or discards the entry when that count
\* has reached the ceiling, or finds the entry evicted; it never leaves it
\* with an equal or smaller count.
C25_RetryCounter ==
    [][ /\ \A i \in 1..Len(failed_log_batches') :
               failed_log_batches'[i].RetryCount \in 1..retry_ceiling
        /\ \A i \in 1..Len(failed_log_batches),
              j \in 1..Len(failed_log_batches') :
               failed_log_batches'[j].Logs = failed_log_batches[i].Logs =>
                   failed_log_batches'[j].RetryCount >=
                       failed_log_batches[i].RetryCount
        /\ (/\ sender["timer"].pc = "sending"
            /\ sender'["timer"].pc \notin {"sending", "delivered"}) =>
               LET logs == sender["timer"].logs
                   held == {i \in 1..Len(failed_log_batches) :
                                failed_log_batches[i].Logs = logs}
               IN \/ /\ sender'["timer"].pc = "quarantined"
                     /\ held # {}
                     /\ Len(failed_log_batches') = Len(failed_log_batches)
                     /\ \A i \in 1..Len(failed_log_batches) :
                            IF i \in held
                            THEN /\ failed_log_batches'[i].Logs = logs
                                 /\ failed_log_batches'[i].RetryCount >
                                        sender["timer"].retry_count
                                 /\ failed_log_batches'[i].RetryCount >
                                        failed_log_batches[i].RetryCount
                            ELSE failed_log_batches'[i] =
                                     failed_log_batches[i]
                  \/ /\ sender'["timer"].pc = "discarded"
                     /\ held # {}
                     /\ sender["timer"].retry_count >= retry_ceiling
                     /\ failed_log_batches' =
                            SelectSeq(failed_log_batches,
                                      LAMBDA e : e.Logs # logs)
                  \/ /\ sender'["timer"].pc = "evicted"
                     /\ held = {}
                     /\ failed_log_batches' = failed_log_batches
      ]_vars

\* a batch was discarded because its RetryCount had reached the ceiling
C25_Witness ==
    /\ sender["timer"].pc = "discarded"
    /\ sender["timer"].retry_count = retry_ceiling
    /\ sender["timer"].logs \notin QuarantinedLogs

\* C26: quarantine redelivery is exactly-once per entry. No batch is
\* delivered twice; a delivered batch is neither in the quarantine nor
\* being sent; the step in which a re-submission succeeds delivers the
\* batch and removes its entry and no other; the quarantine holds no batch
\* twice; the step that quarantines a failed flush leaves that batch in
\* the quarantine exactly once, also during a timer pass; and an entry
\* leaves the quarantine only when the timer has delivered or discarded
\* its batch or when it is the oldest entry of a full quarantine to which
\* a failed flush is added.
C26_ExactlyOnceRedelivery ==
    [][ /\ \A i \in 1..Len(delivered') :
               /\ Occurrences(delivered', delivered'[i]) = 1
               /\ delivered'[i] \notin
                      {failed_log_batches'[k].Logs :
                           k \in 1..Len(failed_log_batches')}
               /\ \A c \in Callers :
                      sender'[c].pc = "sending" =>
                          sender'[c].logs # delivered'[i]
        /\ (sender["timer"].pc = "sending"
                /\ sender'["timer"].pc = "delivered") =>
               /\ delivered' = Append(delivered, sender["timer"].logs)
               /\ failed_log_batches' =
                      SelectSeq(failed_log_batches,
                                LAMBDA e : e.Logs # sender["timer"].logs)
        /\ \A i, j \in 1..Len(failed_log_batches') :
               i # j => failed_log_batches'[i].Logs #
                            failed_log_batches'[j].Logs
        /\ (sender["flush"].pc = "sending"
                /\ sender'["flush"].pc = "quarantined") =>
               Cardinality({i \in 1..Len(failed_log_batches') :
                   failed_log_batches'[i].Logs = sender["flush"].logs}) = 1
        /\ \A i \in 1..Len(failed_log_batches) :
               (failed_log_batches[i].Logs \notin
                    {failed_log_batches'[k].Logs :
                         k \in 1..Len(failed_log_batches')}) =>
                   \/ /\ sender["timer"].pc = "sending"
                      /\ sender["timer"].logs = failed_log_batches[i].Logs
                      /\ sender'["timer"].pc \in {"delivered", "discarded"}
                   \/ /\ i = 1
                      /\ Len(failed_log_batches) >= max_failed_batches
                      /\ sender["flush"].pc = "sending"
                      /\ sender'["flush"].pc = "quarantined"
      ]_vars

\* during one pass of the timer, which has still a batch to go to, the
\* timer redelivered a batch of the pass and its entry is removed, and a
\* failed flush was added to the quarantine
C26_Witness ==
    /\ PassRunning
    /\ sender["timer"].pc = "delivered"
    /\ sender["timer"].logs \in Range(pass_batches)
    /\ sender["timer"].logs \in Range(delivered)
    /\ sender["timer"].logs \notin QuarantinedLogs
    /\ sender["flush"].pc = "quarantined"
    /\ sender["flush"].logs \in QuarantinedLogs
    /\ sender["flush"].logs \notin Range(pass_batches)

\* C27: recovery liveness. Once the sink accepts every transmission, the
\* quarantine becomes empty and stays so, and every batch that was in the
\* quarantine at that time is delivered.
C27_RecoveryLiveness ==
    /\ sink_recovered ~> [](failed_log_batches = <<>>)
    /\ \A n \in 1..MaxSealed :
           (sink_recovered /\ BatchLogs(n) \in QuarantinedLogs)
               ~> (BatchLogs(n) \in Range(delivered))

\* after the recovery the timer delivered a batch and the quarantine is
\* empty
C27_Witness ==
    /\ sink_recovered
    /\ sender["timer"].pc = "delivered"
    /\ sender["timer"].calls = 1
    /\ failed_log_batches = <<>>

\* C28: malformed pub/sub input is rejected before any effect. A call of
\* publish_async, subscribe_async or unsubscribe_async with an empty or
\* None channel, and a subscribe_async with a None handler, ends with
\* ValueError, sends no command to Redis, creates no client and no task,
\* and leaves both tables as they were.
C28_MalformedRejected ==
    [][ (/\ redis_ops' # redis_ops
         /\ redis_call'.op \in {"publish", "subscribe", "unsubscribe"}
         /\ \/ redis_call'.channel \in {"", None}
            \/ redis_call'.op = "subscribe" /\ redis_call'.handler = None) =>
            /\ redis_result' = "ValueError"
            /\ UNCHANGED <<subscriptions, pubsub_tasks, tasks, async_client,
                           redis_calls>>
      ]_vars

\* a subscribe_async with a None handler was rejected on a client that has
\* a subscription
C28_Witness ==
    /\ redis_result = "ValueError"
    /\ redis_call.op = "subscribe"
    /\ redis_call.channel = "c1"
    /\ redis_call.handler = None
    /\ subscriptions # {}
    /\ pubsub_tasks # {}

\* the records whose append (line 24) has run
SinkAppended ==
    {LogEvent(p) : p \in {q \in 1..emitted : sink_pc[q] \in {"insert", "done"}}}

\* the records an insert_many that returned has written
SinkWritten ==
    UNION {Range(sink_writes[i].docs) :
               i \in {j \in 1..Len(sink_writes) : sink_writes[j].ok}}

\* C29: the dynamic sink never loses a record across flushes. Every
\* record appended to the batch is in the batch or was part of an
\* insert_many that returned; a step removes a record from the batch only
\* together with a returned insert_many that included it; an insert_many
\* that raised leaves the batch, order included, as it was.
C29_NoRecordLost ==
    /\ [](SinkAppended \subseteq (Range(sink_batch) \cup SinkWritten))
    /\ [][ /\ (Range(sink_batch) \ Range(sink_batch')) # {} =>
                /\ Len(sink_writes') = Len(sink_writes) + 1
                /\ sink_writes'[Len(sink_writes')].ok
                /\ Range(sink_batch) \subseteq
                       Range(sink_writes'[Len(sink_writes')].docs)
           /\ (/\ Len(sink_writes') = Len(sink_writes) + 1
               /\ ~sink_writes'[Len(sink_writes')].ok) =>
                  sink_batch' = sink_batch
         ]_vars

\* an insert_many raised, a record was appended behind the kept batch, and
\* a later insert_many returned with all of them in order
C29_Witness ==
    /\ sink_batch = <<>>
    /\ \E i \in 1..Len(sink_writes) : \E j \in (i + 1)..Len(sink_writes) :
           /\ ~sink_writes[i].ok
           /\ sink_writes[j].ok
           /\ Len(sink_writes[j].docs) > Len(sink_writes[i].docs)
           /\ SubSeq(sink_writes[j].docs, 1, Len(sink_writes[i].docs)) =
                  sink_writes[i].docs

\* C30: the batch of the dynamic sink is bounded. In every state the batch
\* holds at most batch_size records.
C30_BatchBounded == Len(sink_batch) <= sink_batch_size

\* C31: no write after shutdown. Once a shutdown() of the trace exporter
\* or a stop() of the log batcher has returned, the worker thread has
\* ended and no step writes to the sink any more.
C31_NoWriteAfterShutdown ==
    [][ /\ shutdown_returns >= 1 =>
               /\ trace_pc = "done"
               /\ db_writes' = db_writes
        /\ stop_returns >= 1 =>
               /\ worker_pc = "done"
               /\ collection_writes' = collection_writes
      ]_vars

\* the tenants that had a span in the input of the n-th flush
TenantsOfFlush(n) == {flush_inputs[n][i][1] : i \in 1..Len(flush_inputs[n])}

\* C32: per-tenant failure isolation. An insert_many that raises for one
\* tenant leaves the remaining tenants of the flush to be written; when
\* the flush is over every tenant of its input was written exactly once,
\* whatever the outcome of the other writes, and the worker goes on with
\* an empty dict.
C32_TenantIsolation ==
    /\ [](\A n \in 1..Len(flush_inputs) :
              (n < Len(flush_inputs) \/ trace_pc # "flush") =>
                  \A t \in TenantsOfFlush(n) :
                      Cardinality({i \in 1..Len(db_writes) :
                                      /\ db_writes[i].flush = n
                                      /\ db_writes[i].coll = t}) = 1)
    /\ [][ (/\ Len(db_writes') = Len(db_writes) + 1
            /\ ~db_writes'[Len(db_writes')].ok) =>
               /\ flushing' = Tail(flushing)
               /\ IF flushing' = <<>>
                  THEN batch_by_tenant' = <<>> /\ trace_pc' = "outer"
                  ELSE trace_pc' = "flush"
         ]_vars

\* a flush of two tenants is over: the write of the first tenant failed,
\* the write of the second one was made, and the dict is empty
C32_Witness ==
    /\ trace_pc = "outer"
    /\ batch_by_tenant = <<>>
    /\ Len(flush_inputs) = 1
    /\ Len(db_writes) = 2
    /\ ~db_writes[1].ok
    /\ db_writes[2].ok
    /\ db_writes[1].coll # db_writes[2].coll

\* C33: one pipeline per process. However many MongoHandler instances are
\* constructed, at most one MongoBatchLogger (and so one worker thread) is
\* ever constructed, every handler holds that batcher, and every emit
\* enqueues into it.
C33_OnePipeline ==
    /\ Cardinality(loggers) <= 1
    /\ \A t, u \in HandlerThreads :
           (handler_pc[t] = "ready" /\ handler_pc[u] = "ready") =>
               handler_logger[t] = handler_logger[u]
    /\ \A e, f \in handler_emits : e[2] = f[2]

\* the tasks of _handle_subscription of a channel that have not ended
RunningTasks(channel) ==
    {k \in 1..Len(tasks) :
         tasks[k].state # "ended" /\ tasks[k].channel = channel}

\* C34: unsubscribe is final. When the last call on the client is an
\* unsubscribe_async(channel) that has returned, no subscription task of
\* the channel is running, and no handler is invoked for a message of the
\* channel.
C34_UnsubscribeFinal ==
    /\ []((redis_call.op = "unsubscribe" /\ redis_result = "returned") =>
              RunningTasks(redis_call.channel) = {})
    /\ [][ (/\ redis_call.op = "unsubscribe"
            /\ redis_result = "returned"
            /\ Len(handler_calls') = Len(handler_calls) + 1) =>
               handler_calls'[Len(handler_calls')].channel #
                   redis_call.channel
         ]_vars

\* C35: disposal releases every subscription. When the last call on the
\* client is a dispose() or a dispose_async(), no subscription task is
\* running and both tables are empty, and the call has returned normally.
C35_DisposeReleasesAll ==
    (redis_call.op \in {"dispose", "dispose_async"}
     /\ redis_result # "pending") =>
        /\ redis_result = "returned"
        /\ \A k \in 1..Len(tasks) : tasks[k].state = "ended"
        /\ subscriptions = {}
        /\ pubsub_tasks = {}

\* the handler call a step has made, if it made one
CallMade(before, after) == after[Len(after)]

\* task k is as it was, but for the number of callbacks ahead of its wait
SameTask(before, after) ==
    [after EXCEPT !.behind = before.behind] = before

\* C36: a handler that raises an Exception does not end the subscription.
\* Such a handler call records one error and leaves its task listening,
\* not asked to cancel, on the same channel with the same handler, and
\* every other task and both tables as they were; a task stops listening
\* only when it was asked to cancel, when pubsub.listen() itself raises,
\* or when its handler raises CancelledError; the callbacks ahead of the
\* wait of a listening task are callbacks of the ready queue, so they run;
\* and a listening task that has not been asked to cancel and has no
\* callback ahead of its wait takes the next message of its channel.
C36_HandlerFailureKeepsSubscription ==
    /\ [][ (/\ Len(handler_calls') = Len(handler_calls) + 1
            /\ CallMade(handler_calls, handler_calls').outcome =
                   "Exception") =>
               LET k == CallMade(handler_calls, handler_calls').task
               IN /\ Len(tasks') = Len(tasks)
                  /\ tasks[k].state = "listening"
                  /\ tasks'[k].state = "listening"
                  /\ ~tasks'[k].cancel
                  /\ SameTask(tasks[k], tasks'[k])
                  /\ \A j \in 1..Len(tasks) : j # k => tasks'[j] = tasks[j]
                  /\ redis_errors' = redis_errors + 1
                  /\ UNCHANGED <<subscriptions, pubsub_tasks, redis_calls>>
         ]_vars
    /\ [][ \A k \in 1..Len(tasks) :
               (tasks[k].state = "listening"
                    /\ tasks'[k].state # "listening") =>
                   \/ tasks[k].cancel
                   \/ /\ handler_calls' = handler_calls
                      /\ redis_errors' = redis_errors + 1
                   \/ /\ Len(handler_calls') = Len(handler_calls) + 1
                      /\ CallMade(handler_calls, handler_calls').task = k
                      /\ CallMade(handler_calls, handler_calls').outcome =
                             "CancelledError"
         ]_vars
    /\ [](\A k \in 1..Len(tasks) :
              tasks[k].state = "listening" =>
                  tasks[k].behind <= Len(redis_ready))
    /\ [](\A k \in 1..Len(tasks) :
              (tasks[k].state = "listening"
               /\ ~tasks[k].cancel
               /\ tasks[k].behind = 0
               /\ WithinRedisOps
               /\ Len(handler_calls) < MaxMessages) =>
                  ENABLED HandleMessage(k, Returns))

\* C36 as stated, for whatever the handler raises: the handler call
\* records one error and leaves its task listening.
C36_AnyRaiseKeepsSubscription ==
    [][ (/\ Len(handler_calls') = Len(handler_calls) + 1
         /\ CallMade(handler_calls, handler_calls').raised) =>
            /\ tasks'[CallMade(handler_calls, handler_calls').task].state =
                   "listening"
            /\ redis_errors' = redis_errors + 1
      ]_vars

\* the handler raised an Exception for the first message of a task and was
\* called again for the next one
C36_Witness ==
    /\ Len(handler_calls) = 2
    /\ handler_calls[1].outcome = "Exception"
    /\ handler_calls[2].outcome = Returns
    /\ handler_calls[1].task = handler_calls[2].task
    /\ redis_errors = 1
    /\ tasks[handler_calls[1].task].state = "listening"

\* C37: initialize is effective exactly once. Whatever the number and the
\* interleaving of the initialize() calls on the instance, _load_tenants
\* is called at most once by them and at most one subscription task is
\* created, and when a call has returned both have happened exactly once.
C37_InitializeOnce ==
    /\ loads <= 1
    /\ subscribe_tasks <= 1
    /\ (\E c \in InitCallers : init_pc[c] = "done") =>
           /\ loads = 1
           /\ subscribe_tasks = 1
           /\ tenant_initialized

\* an initialize() call has loaded the tenants and returned while another
\* call, made during the load, is still suspended on the lock
C37_Witness ==
    /\ \E c, d \in InitCallers : init_pc[c] = "done" /\ init_pc[d] = "wait"
    /\ init_lock = NoHolder
    /\ loads = 1
    /\ subscribe_tasks = 1

\* C38: cache coherence after invalidation. When an update notification
\* has been fully handled, no notification and no reload is outstanding
\* and the reload has read the tenant as it is stored now, the cache holds
\* no entry that differs from the stored tenant.
C38_CacheCoherent ==
    (/\ updates_handled >= 1
     /\ updates_pending = 0
     /\ load_pc = "idle"
     /\ load_snapshot = tenant_store) =>
        tenant_cache \in {NoEntry, tenant_store}

\* C39: at most one sender per destination name. get_topic_sender is
\* called at most once for a name, never for a declared name, and all
\* callers that asked for a name hold the same sender object, the one the
\* table holds.
C39_OneSenderPerName ==
    /\ \A name \in DestinationNames :
           topic_sender_calls[name] <=
               (IF name \in DeclaredNames THEN 0 ELSE 1)
    /\ \A c \in Getters :
           getter_pc[c] \in {"send", "done"} =>
               /\ getter_sender[c] = DictGet(azure_senders, getter_name[c])
               /\ \A d \in Getters :
                      (getter_pc[d] \in {"send", "done"}
                       /\ getter_name[d] = getter_name[c]) =>
                          getter_sender[d] = getter_sender[c]

\* two callers asked for the same undeclared name while the first one was
\* still sending: one get_topic_sender call, one sender object
C39_Witness ==
    \E c, d \in Getters :
        /\ c # d
        /\ getter_pc[c] = "send"
        /\ getter_pc[d] = "send"
        /\ getter_name[c] = "t1"
        /\ getter_name[d] = "t1"
        /\ getter_sender[c] = getter_sender[d]
        /\ topic_sender_calls["t1"] = 1

====
